---- MODULE Spec2Model ----
(***************************************************************************)
(* streamlit-pdf frontend: the URL resolution of urlUtils.ts and the       *)
(* viewer state machine of PdfViewer.tsx.                                  *)
(*                                                                         *)
(* Strings.  A JavaScript string is a sequence of lexemes.  A lexeme is    *)
(* either one delimiter character ("/", ":", "?", "#", "&", "=") or a      *)
(* maximal run of other characters ("media", "file.pdf", "localhost").     *)
(* Every string operation of urlUtils.ts looks only at delimiters and at   *)
(* the fixed word "media" (leading and trailing runs of "/", the prefix    *)
(* "/media/", the last "/", runs of two or more "/"), so on sequences in   *)
(* which no two words are adjacent the lexeme-level operators below        *)
(* compute exactly what the character-level JavaScript computes.           *)
(*                                                                         *)
(* undefined / null.  An optional string is a record [some, val]; the      *)
(* JavaScript values undefined and null are both Undefined.                *)
(***************************************************************************)
EXTENDS Integers, Sequences, FiniteSets, TLC

\* ------------------------------------------------------------------------
\* Optional strings and JavaScript truthiness

Undefined == [some |-> FALSE, val |-> <<>>]

Str(s) == [some |-> TRUE, val |-> s]

\* `!x` is false exactly for a non-empty string
Truthy(x) == x.some /\ Len(x.val) > 0

Max(a, b) == IF a >= b THEN a ELSE b

\* ------------------------------------------------------------------------
\* String primitives used by urlUtils.ts

\* s.startsWith(p)
StartsWith(s, p) == Len(s) >= Len(p) /\ SubSeq(s, 1, Len(p)) = p

\* s.endsWith("/")
EndsWithSlash(s) == Len(s) > 0 /\ s[Len(s)] = "/"

\* length of the match of /^\/+/ (0 when there is none)
LeadingSlashes(s) ==
  CHOOSE k \in 0..Len(s) :
    /\ \A i \in 1..k : s[i] = "/"
    /\ (k = Len(s) \/ s[k + 1] # "/")

\* length of the match of /\/+$/ (0 when there is none)
TrailingSlashes(s) ==
  CHOOSE k \in 0..Len(s) :
    /\ \A i \in (Len(s) - k + 1)..Len(s) : s[i] = "/"
    /\ (k = Len(s) \/ s[Len(s) - k] # "/")

\* s.replace(/^\/+/, "")
StripLeadingSlashes(s) == SubSeq(s, LeadingSlashes(s) + 1, Len(s))

\* faulty variant: the leading slashes are left as written
CollapseLeadingSlashes_NotCollapsed(s) == s

\* s.replace(/^\/+/, "/")
CollapseLeadingSlashes(s) ==
  IF LeadingSlashes(s) = 0 THEN s ELSE <<"/">> \o StripLeadingSlashes(s)

\* s.replace(/\/+$/, "")
StripTrailingSlashes(s) == SubSeq(s, 1, Len(s) - TrailingSlashes(s))

\* s.replace(/\/{2,}/g, "/")
RECURSIVE CollapseSlashes(_)
CollapseSlashes(s) ==
  IF Len(s) <= 1 THEN s
  ELSE IF s[1] = "/" /\ s[2] = "/" THEN CollapseSlashes(Tail(s))
  ELSE <<s[1]>> \o CollapseSlashes(Tail(s))

\* s.lastIndexOf("/"): the 0-based index of the last "/", -1 when there is none
LastIndexOfSlash(s) ==
  IF \E i \in 1..Len(s) : s[i] = "/"
  THEN (CHOOSE i \in 1..Len(s) :
          s[i] = "/" /\ \A j \in (i + 1)..Len(s) : s[j] # "/") - 1
  ELSE -1

\* s.slice(0, n)
SliceTo(s, n) == SubSeq(s, 1, n)

\* the 1-based position of the first lexeme of s that is in D, Len(s)+1 if none
FirstOf(s, D) ==
  CHOOSE k \in 1..(Len(s) + 1) :
    /\ \A i \in 1..(k - 1) : s[i] \notin D
    /\ (k = Len(s) + 1 \/ s[k] \in D)

\* s split at the lexeme d: the pieces between the occurrences of d
RECURSIVE Split(_, _)
Split(s, d) ==
  LET k == FirstOf(s, {d})
  IN  IF k = Len(s) + 1 THEN <<s>>
      ELSE <<SubSeq(s, 1, k - 1)>> \o Split(SubSeq(s, k + 1, Len(s)), d)

\* ------------------------------------------------------------------------
\* The browser's URL parser, `new URL(input)` with no base, on the inputs of
\* this model: a scheme word and ":", then for http(s) any run of "/", a
\* host word with an optional ":" port, and a path kept up to "?" or "#";
\* for other schemes an optional "//" authority and the path.  Path words
\* of the model are plain segments (no ".", "..", no character that the
\* parser would percent-encode), so the path is kept as written, duplicate
\* slashes included.

\* words that can be a scheme (a letter, then letters, digits, "+", "-", ".")
SchemeWords == {"http", "https", "foo", "localhost"}

\* the special schemes among them
SpecialSchemes == {"http", "https"}

\* words that are valid hosts
HostWords == {"localhost", "example.com", "media", "app"}

\* words that are valid ports
PortWords == {"8501", "80", "443"}

\* the port a special scheme omits from its origin
DefaultPort(scheme) == IF scheme = "http" THEN "80" ELSE "443"

ParseFailure == [ok |-> FALSE, origin |-> <<>>, pathname |-> <<>>]

\* host and port of an authority, or failure
ParseAuthority(a) ==
  IF Len(a) = 1 /\ a[1] \in HostWords
    THEN [ok |-> TRUE, host |-> a[1], port |-> ""]
  ELSE IF Len(a) = 2 /\ a[1] \in HostWords /\ a[2] = ":"
    THEN [ok |-> TRUE, host |-> a[1], port |-> ""]
  ELSE IF Len(a) = 3 /\ a[1] \in HostWords /\ a[2] = ":" /\ a[3] \in PortWords
    THEN [ok |-> TRUE, host |-> a[1], port |-> a[3]]
  ELSE [ok |-> FALSE, host |-> "", port |-> ""]

\* the part of s before the query or fragment
BeforeQuery(s) == SubSeq(s, 1, FirstOf(s, {"?", "#"}) - 1)

ParseSpecial(scheme, rest) ==
  LET a    == StripLeadingSlashes(rest)
      e    == FirstOf(a, {"/", "?", "#"})
      auth == ParseAuthority(SubSeq(a, 1, e - 1))
      path == BeforeQuery(SubSeq(a, e, Len(a)))
  IN  IF ~auth.ok THEN ParseFailure
      ELSE [ok |-> TRUE,
            origin |-> <<scheme, ":", "/", "/", auth.host>> \o
                       (IF auth.port = "" \/ auth.port = DefaultPort(scheme)
                        THEN <<>> ELSE <<":", auth.port>>),
            pathname |-> IF path = <<>> THEN <<"/">> ELSE path]

ParseNonSpecial(scheme, rest) ==
  IF StartsWith(rest, <<"/", "/">>)
  THEN LET a    == SubSeq(rest, 3, Len(rest))
           e    == FirstOf(a, {"/", "?", "#"})
           auth == SubSeq(a, 1, e - 1)
       IN  IF auth # <<>> /\ ~ParseAuthority(auth).ok THEN ParseFailure
           ELSE [ok |-> TRUE, origin |-> <<"null">>,
                 pathname |-> BeforeQuery(SubSeq(a, e, Len(a)))]
  ELSE [ok |-> TRUE, origin |-> <<"null">>, pathname |-> BeforeQuery(rest)]

\* new URL(s): [ok, origin, pathname]; ok = FALSE when the constructor throws
ParseURL(s) ==
  IF Len(s) >= 2 /\ s[1] \in SchemeWords /\ s[2] = ":"
  THEN IF s[1] \in SpecialSchemes
       THEN ParseSpecial(s[1], SubSeq(s, 3, Len(s)))
       ELSE ParseNonSpecial(s[1], SubSeq(s, 3, Len(s)))
  ELSE ParseFailure

\* ------------------------------------------------------------------------
\* URLSearchParams

\* percent-decoding of one lexeme
DecodeLexeme(x) ==
  CASE x = "%3A" -> ":"
    [] x = "%2F" -> "/"
    [] OTHER -> x

Decode(s) == [i \in 1..Len(s) |-> DecodeLexeme(s[i])]

\* new URLSearchParams(search): the sequence of [name, value] pairs
SearchParams(search) ==
  LET body   == IF Len(search) > 0 /\ search[1] = "?" THEN Tail(search) ELSE search
      pieces == SelectSeq(Split(body, "&"), LAMBDA p : p # <<>>)
      Pair(p) == LET k == FirstOf(p, {"="})
                 IN  [name  |-> Decode(SubSeq(p, 1, k - 1)),
                      value |-> Decode(SubSeq(p, k + 1, Len(p)))]
  IN  [i \in 1..Len(pieces) |-> Pair(pieces[i])]

\* params.get(name): the value of the first pair of that name, or null
ParamsGet(params, name) ==
  IF \E i \in 1..Len(params) : params[i].name = name
  THEN Str(params[CHOOSE i \in 1..Len(params) :
                    /\ params[i].name = name
                    /\ \A j \in 1..(i - 1) : params[j].name # name].value)
  ELSE Undefined

\* ------------------------------------------------------------------------
\* urlUtils.ts

VARIABLES
  parentOverride,   \* window.parent.__streamlit?.DOWNLOAD_ASSETS_BASE_URL
  locationSearch,   \* window.location.search
  locationPath,     \* window.location.origin + window.location.pathname
  fileUrl,          \* the reference the host passes in
  result,           \* mergeFileUrlWithStreamlitUrl(fileUrl)
  again,            \* mergeFileUrlWithStreamlitUrl(result)
  upc               \* position of the resolution run

BASE_MEDIA_PATH == <<"/", "media", "/">>

\* typeof window !== "undefined": the frontend runs in a browser frame
WindowDefined == TRUE

\* faulty variant: the query parameter is looked up before the override
getStreamlitUrl_QueryFirst ==
  LET streamlitUrl == ParamsGet(SearchParams(locationSearch), <<"streamlitUrl">>)
  IN  IF Truthy(streamlitUrl) THEN streamlitUrl
      ELSE IF Truthy(parentOverride) THEN parentOverride
      ELSE Undefined

\* faulty variant: without override and parameter the current page's origin
\* and path are returned
getStreamlitUrl_LocationFallback ==
  LET streamlitUrl == ParamsGet(SearchParams(locationSearch), <<"streamlitUrl">>)
  IN  IF Truthy(parentOverride) THEN parentOverride
      ELSE IF Truthy(streamlitUrl) THEN streamlitUrl
      ELSE Str(locationPath)

getStreamlitUrl ==
  IF ~WindowDefined THEN Undefined
  ELSE IF Truthy(parentOverride) THEN parentOverride
  ELSE IF Len(locationSearch) = 0 THEN Undefined
  ELSE LET streamlitUrl == ParamsGet(SearchParams(locationSearch), <<"streamlitUrl">>)
       IN  IF Truthy(streamlitUrl) THEN streamlitUrl ELSE Undefined

\* faulty variant: the last segment is kept
AppBasePath_KeepsLastSegment(pathname) ==
  IF Len(pathname) > 0 THEN pathname ELSE <<"/">>

\* the app base path derived from the pathname of the parsed Streamlit URL
AppBasePath(pathname) ==
  LET parentPath == IF Len(pathname) > 0 THEN pathname ELSE <<"/">>
      dropped    == SliceTo(parentPath, Max(0, LastIndexOfSlash(parentPath) + 1))
  IN  IF EndsWithSlash(parentPath) THEN parentPath
      ELSE IF Len(dropped) = 0 THEN <<"/">> ELSE dropped

\* faulty variant: duplicate slashes are not collapsed
NormalizeBasePath_NoCollapse(appBasePath) ==
  LET leading == IF ~StartsWith(appBasePath, <<"/">>)
                 THEN <<"/">> \o appBasePath ELSE appBasePath
  IN  IF leading # <<"/">> /\ ~EndsWithSlash(leading)
      THEN leading \o <<"/">> ELSE leading

\* collapse duplicate slashes, one leading slash, one trailing slash
NormalizeBasePath(appBasePath) ==
  LET collapsed == CollapseSlashes(appBasePath)
      leading   == IF ~StartsWith(collapsed, <<"/">>)
                   THEN <<"/">> \o collapsed ELSE collapsed
  IN  IF leading # <<"/">> /\ ~EndsWithSlash(leading)
      THEN leading \o <<"/">> ELSE leading

\* the try block: parse the base and join origin, base path and media path
MergeParsed(url, normalizedFileUrl) ==
  url.origin \o NormalizeBasePath(AppBasePath(url.pathname))
             \o StripLeadingSlashes(normalizedFileUrl)

\* faulty variant: only one trailing slash of the base is removed
MergeFallback_OneTrailingSlash(streamlitUrl, normalizedFileUrl) ==
  (IF EndsWithSlash(streamlitUrl)
   THEN SubSeq(streamlitUrl, 1, Len(streamlitUrl) - 1) ELSE streamlitUrl)
  \o <<"/">> \o StripLeadingSlashes(normalizedFileUrl)

\* the catch block: simple replacement
MergeFallback(streamlitUrl, normalizedFileUrl) ==
  StripTrailingSlashes(streamlitUrl) \o <<"/">> \o StripLeadingSlashes(normalizedFileUrl)

\* faulty variant: an undefined reference gives the empty string
MergeWith_EmptyForUndefined(f, streamlitUrl) ==
  IF ~Truthy(f) THEN Str(<<>>)
  ELSE LET normalizedFileUrl == CollapseLeadingSlashes(f.val)
       IN  IF ~StartsWith(normalizedFileUrl, BASE_MEDIA_PATH) THEN f
           ELSE IF ~Truthy(streamlitUrl) THEN f
           ELSE LET url == ParseURL(streamlitUrl.val)
                IN  IF url.ok
                    THEN Str(MergeParsed(url, normalizedFileUrl))
                    ELSE Str(MergeFallback(streamlitUrl.val, normalizedFileUrl))

\* the body of mergeFileUrlWithStreamlitUrl, with the value getStreamlitUrl()
\* returns as the parameter streamlitUrl
MergeWith(f, streamlitUrl) ==
  IF ~Truthy(f) THEN Undefined
  ELSE LET normalizedFileUrl == CollapseLeadingSlashes(f.val)
       IN  IF ~StartsWith(normalizedFileUrl, BASE_MEDIA_PATH) THEN f
           ELSE IF ~Truthy(streamlitUrl) THEN f
           ELSE LET url == ParseURL(streamlitUrl.val)
                IN  IF url.ok
                    THEN Str(MergeParsed(url, normalizedFileUrl))
                    ELSE Str(MergeFallback(streamlitUrl.val, normalizedFileUrl))

mergeFileUrlWithStreamlitUrl(f) == MergeWith(f, getStreamlitUrl)

urlVars == <<parentOverride, locationSearch, locationPath, fileUrl, result, again, upc>>

\* ------------------------------------------------------------------------
\* PdfViewer.tsx: the state of one mounted viewer

VARIABLES
  mounted,           \* the React root renders a PDFViewer
  file,              \* const file = mergeFileUrlWithStreamlitUrl(fileUrl)
  numPages,          \* useState(0)
  loading,           \* useState(true)
  error,             \* useState(null): NoError or [main, help]
  zoom,              \* useState(1.0), in hundredths
  showZoomControls,  \* useState(false)
  pageHeights,       \* useState({}): page index -> height
  pageWidths,        \* useState({}): page index -> width
  containerWidth,    \* useState(0)
  timeoutRef,        \* inactivityTimeoutRef.current is not null
  timerPending,      \* the timeout it names is scheduled and not yet fired
  isHovering,        \* isHoveringRef.current
  pointerInside,     \* the pointer is over the root element of the viewer
  moveAttached,      \* the mousemove listener is on the root element
  scrollAttached,    \* the scroll listener is on the content element
  resizeObserved,    \* the ResizeObserver observes the content element
  docState,          \* the Document element: "none", "loading" or "loaded"
  failedPages,       \* indexes of the Page elements that failed to load
  loadErrorMessage,  \* error.message of the Error onDocumentLoadError was called with
  deliveredPages,    \* page index -> the page of the last onLoadSuccess delivered for it
  measuredZoom,      \* the zoom of the render the last virtualizer.measure() ran on
  measureTarget,     \* the element of the last virtualizer.measureElement call of onPageLoadSuccess
  pendingTimeouts,   \* the number of timeouts scheduled by resetInactivityTimer and neither fired nor cleared
  otherViewer        \* the PDFViewer of the root of a second parent element

viewerVars ==
  <<mounted, file, numPages, loading, error, zoom, showZoomControls, pageHeights,
    pageWidths, containerWidth, timeoutRef, timerPending, isHovering,
    pointerInside, moveAttached, scrollAttached, resizeObserved, docState,
    failedPages, loadErrorMessage, deliveredPages, measuredZoom, measureTarget, pendingTimeouts>>

vars == <<urlVars, viewerVars, otherViewer>>

\* zoom control constants, in hundredths
MIN_ZOOM == 50

MAX_ZOOM == 300

ZOOM_STEP == 25

INITIAL_ZOOM == 100

DEFAULT_PAGE_HEIGHT == 800

PAGE_MARGIN == 12

Min(a, b) == IF a <= b THEN a ELSE b

\* largest page count the render engine reports
MaxPages == 2

\* the longest run of repeated zoom calls that is examined: more than the
\* (MAX_ZOOM - MIN_ZOOM) / ZOOM_STEP = 10 steps between the bounds
MaxRepeats == 12

\* the longest failure message whose classification is examined, in pieces
MaxMessagePieces == 2

\* the longest document whose page metrics are examined
MaxMetricPages == 3

\* the natural sizes the render engine reports for a page
PageSizes == {[height |-> 842, width |-> 612], [height |-> 600, width |-> 800]}

\* the natural sizes of the pages whose metrics are examined: A4 upright
\* and A4 landscape
MetricPageSizes ==
  {[height |-> 842, width |-> 595], [height |-> 595, width |-> 842]}

\* the scroll offsets of the content element and the heights of the
\* viewport that are examined, in hundredths of a pixel: the top, within the
\* second page, and far down; the default height of 600 and twice that
ScrollOffsets == {0, 90000, 400000}

ViewportHeights == {60000, 120000}

\* the widths the content element takes
ContentWidths == {700, 1000}

NoError == [main |-> "", help |-> <<>>]

\* the elements a call of virtualizer.measureElement can name: none yet, the
\* scroll element (the content div) and the div with data-index of a page
NoElement == [kind |-> "none", index |-> -1]

ScrollElement == [kind |-> "scrollElement", index |-> -1]

PageElement(pageIndex) == [kind |-> "page", index |-> pageIndex]

\* variant: the call names the div of the page that loaded
measureElementTarget_Slot(pageIndex) == PageElement(pageIndex)

\* onPageLoadSuccess: virtualizer.measureElement(virtualizer.scrollElement)
measureElementTarget(pageIndex) == ScrollElement

\* the second parent element has no root in reactRoots
NoOtherViewer ==
  [mounted |-> FALSE, numPages |-> 0, loading |-> TRUE, error |-> NoError,
   zoom |-> INITIAL_ZOOM, showZoomControls |-> FALSE, timerPending |-> FALSE,
   pageHeights |-> <<>>]

EmptyRecord == [i \in {} |-> 0]

\* the container and content elements are rendered (the `!file` branch is not)
ContainerRendered == mounted /\ Truthy(file)

\* faulty variant: !loading is missing from the condition
ZoomControlsRendered_WhileLoading == ContainerRendered /\ error = NoError

\* the zoom buttons are rendered
ZoomControlsRendered == ContainerRendered /\ ~loading /\ error = NoError

\* faulty variant: <= for <
canZoomIn_AtMost == zoom <= MAX_ZOOM

canZoomIn == zoom < MAX_ZOOM

canZoomOut == zoom > MIN_ZOOM

\* ------------------------------------------------------------------------
\* onDocumentLoadError: the classification of a failure message.  A message
\* is a sequence of pieces, each an indicator phrase in some letter case or
\* text that holds no indicator.

\* error.message.toLowerCase(), piece by piece
LowerCase(x) ==
  CASE x = "CORS" -> "cors"
    [] x = "Cross-Origin" -> "cross-origin"
    [] x = "Invalid PDF" -> "invalid pdf"
    [] x = "PDF Header" -> "pdf header"
    [] x = "Not A PDF" -> "not a pdf"
    [] x = "Fetch" -> "fetch"
    [] x = "Network" -> "network"
    [] x = "Load" -> "load"
    [] x = "Not Found" -> "not found"
    [] x = "Unauthorized" -> "unauthorized"
    [] x = "Oops " -> "oops "
    [] OTHER -> x

\* faulty variant: the message is matched as it is written
ToLowerCase_AsWritten(m) == m

ToLowerCase(m) == [i \in 1..Len(m) |-> LowerCase(m[i])]

\* errorMessage.includes(x)
Includes(m, x) == \E i \in 1..Len(m) : m[i] = x

\* faulty variant: the remedy text of the generic category is built from the
\* lower-cased copy of the message
classify_DetailsLowered(message) ==
  [main |-> "Unable to load PDF",
   help |-> <<"Error details: ">> \o ToLowerCase(message)]

classify(message) ==
  LET errorMessage == ToLowerCase(message)
  IN  IF Includes(errorMessage, "cors") \/ Includes(errorMessage, "cross-origin")
        THEN [main |-> "Unable to load PDF from external source",
              help |-> <<"The PDF is hosted on a different domain that doesn't allow cross-origin requests. Try downloading the PDF and uploading it directly, or ask the website owner to enable CORS.">>]
      ELSE IF \/ Includes(errorMessage, "invalid pdf")
              \/ Includes(errorMessage, "pdf header")
              \/ Includes(errorMessage, "not a pdf")
        THEN [main |-> "Invalid PDF file",
              help |-> <<"The file doesn't appear to be a valid PDF. Please check that the file is not corrupted and is actually a PDF document.">>]
      ELSE IF \/ Includes(errorMessage, "network")
              \/ Includes(errorMessage, "fetch")
              \/ Includes(errorMessage, "load")
        THEN [main |-> "Network error loading PDF",
              help |-> <<"Unable to download the PDF. This could be due to network issues or CORS restrictions. Please check your internet connection.">>]
      ELSE IF Includes(errorMessage, "not found") \/ Includes(errorMessage, "404")
        THEN [main |-> "PDF not found",
              help |-> <<"The PDF file could not be found at the specified location. Please check the URL or file path.">>]
      ELSE IF \/ Includes(errorMessage, "unauthorized")
              \/ Includes(errorMessage, "401")
              \/ Includes(errorMessage, "403")
        THEN [main |-> "Access denied",
              help |-> <<"You don't have permission to access this PDF.">>]
      ELSE [main |-> "Unable to load PDF",
            help |-> <<"Error details: ">> \o message]

\* the pieces of the messages whose classification is examined: every
\* indicator as the code writes it, indicators in other letter cases, and
\* text without an indicator
MessagePieces ==
  { "cors", "cross-origin", "invalid pdf", "pdf header", "not a pdf",
    "network", "fetch", "load", "not found", "404", "unauthorized", "401", "403",
    "CORS", "Cross-Origin", "Invalid PDF", "PDF Header", "Not A PDF",
    "Network", "Fetch", "Load", "Not Found", "Unauthorized",
    "Oops ", "again" }

ClassifierMessages ==
  UNION { [1..n -> MessagePieces] : n \in 1..MaxMessagePieces }

\* the failure messages the render engine reports in the viewer runs
ErrorMessages ==
  { <<"Missing ", "pdf header", " or ", "404">>,
    <<"Oops ", "again">> }

\* ------------------------------------------------------------------------
\* State updates of the handlers

\* faulty variant: setLoading(false) is missing
DocumentLoadSuccessState_KeepsLoading(n) ==
  [numPages |-> n, loading |-> loading, error |-> NoError]

\* faulty variant: setNumPages(numPages) is missing
DocumentLoadSuccessState_KeepsPageCount(n) ==
  [numPages |-> numPages, loading |-> FALSE, error |-> NoError]

\* onDocumentLoadSuccess: setNumPages, setLoading(false), setError(null)
DocumentLoadSuccessState(n) ==
  [numPages |-> n, loading |-> FALSE, error |-> NoError]

\* faulty variant: setLoading(false) is missing
DocumentLoadErrorState_KeepsLoading(message) ==
  [numPages |-> numPages, loading |-> loading, error |-> classify(message)]

\* onDocumentLoadError: setLoading(false), setError({main, help})
DocumentLoadErrorState(message) ==
  [numPages |-> numPages, loading |-> FALSE, error |-> classify(message)]

\* faulty variant: the zoom grows by a quarter of itself, not by ZOOM_STEP
zoomInValue_Multiplies(prevZoom) == Min(MAX_ZOOM, (prevZoom * 5) \div 4)

\* faulty variant: Math.min(MAX_ZOOM, ...) is missing
zoomInValue_Unclamped(prevZoom) == prevZoom + ZOOM_STEP

\* setZoom(prevZoom => Math.min(MAX_ZOOM, prevZoom + ZOOM_STEP))
zoomInValue(prevZoom) == Min(MAX_ZOOM, prevZoom + ZOOM_STEP)

\* setZoom(prevZoom => Math.max(MIN_ZOOM, prevZoom - ZOOM_STEP))
zoomOutValue(prevZoom) == Max(MIN_ZOOM, prevZoom - ZOOM_STEP)

\* the zoom after n calls of zoomIn, and after n calls of zoomOut
RECURSIVE zoomInTimes(_, _)
zoomInTimes(z, n) == IF n = 0 THEN z ELSE zoomInTimes(zoomInValue(z), n - 1)

RECURSIVE zoomOutTimes(_, _)
zoomOutTimes(z, n) == IF n = 0 THEN z ELSE zoomOutTimes(zoomOutValue(z), n - 1)

\* ------------------------------------------------------------------------
\* Page metrics: the heights the virtualizer is given

\* Object.values(heights).reduce((acc, height) => acc + height, 0)
RECURSIVE totalHeight(_)
totalHeight(heights) ==
  IF DOMAIN heights = {} THEN 0
  ELSE LET i == CHOOSE j \in DOMAIN heights : TRUE
       IN  heights[i] + totalHeight([j \in DOMAIN heights \ {i} |-> heights[j]])

\* Math.round(total / count) for total >= 0 and count > 0: halves go up
MathRound(total, count) == (2 * total + count) \div (2 * count)

\* faulty variant: the average is cut, not rounded
calcPageHeight_Truncated ==
  IF Cardinality(DOMAIN pageHeights) = 0 THEN DEFAULT_PAGE_HEIGHT
  ELSE totalHeight(pageHeights) \div Cardinality(DOMAIN pageHeights)

calcPageHeight ==
  IF Cardinality(DOMAIN pageHeights) = 0 THEN DEFAULT_PAGE_HEIGHT
  ELSE MathRound(totalHeight(pageHeights), Cardinality(DOMAIN pageHeights))

\* pageHeights[pageIndex] || calcPageHeight: a height of 0 is falsy
baseHeight(pageIndex) ==
  IF pageIndex \in DOMAIN pageHeights /\ pageHeights[pageIndex] # 0
    THEN pageHeights[pageIndex]
    ELSE calcPageHeight

\* estimateSize: baseHeight * zoom + PAGE_MARGIN, in hundredths of a pixel
\* as the zoom is in hundredths
estimateSize(index) == baseHeight(index) * zoom + PAGE_MARGIN * 100

\* faulty variant: the measurement of a loaded page leaves out the margin
measureElement_NoMargin(index) ==
  IF index \in DOMAIN pageHeights /\ pageHeights[index] # 0
    THEN pageHeights[index] * zoom
    ELSE calcPageHeight * zoom + PAGE_MARGIN * 100

\* measureElement for the element of a page: the height of the element plus
\* the margin when the page has a recorded height, the scaled average plus
\* the margin otherwise.  The element of a loaded page holds the page
\* rendered at scale zoom, so its height is the recorded height times zoom.
measureElement(index) ==
  IF index \in DOMAIN pageHeights /\ pageHeights[index] # 0
    THEN pageHeights[index] * zoom + PAGE_MARGIN * 100
    ELSE calcPageHeight * zoom + PAGE_MARGIN * 100

\* faulty variant: the virtualizer is given one item more than there are pages
virtualizerCount_OneMore == numPages + 1

\* useVirtualizer({count: numPages, ...})
virtualizerCount == numPages

\* useVirtualizer({..., overscan: 3})
overscan == 3

\* ------------------------------------------------------------------------
\* The virtualizer, from its contract: computeWindow(pageCount, scrollOffset,
\* viewportHeight, scaleFactor, overscanCount).  Its code is a dependency of
\* the repository.  measured is the set of indexes whose element has been
\* measured; lengths are in hundredths of a pixel.

RECURSIVE SumOver(_)
SumOver(f) ==
  IF DOMAIN f = {} THEN 0
  ELSE LET i == CHOOSE j \in DOMAIN f : TRUE
       IN  f[i] + SumOver([j \in DOMAIN f \ {i} |-> f[j]])

\* the extent of a slot: the measurement when there is one, else the estimate
itemSize(index, measured) ==
  IF index \in measured THEN measureElement(index) ELSE estimateSize(index)

\* the extents of all count slots
itemSizes(measured) ==
  [j \in 0..(virtualizerCount - 1) |-> itemSize(j, measured)]

\* totalExtent: the sum of the extents of all count slots
getTotalSize(measured) == SumOver(itemSizes(measured))

\* the window: the slots that intersect [scrollOffset, scrollOffset +
\* viewportHeight], a slot's offsetFromTop being the sum of the extents of
\* the slots before it, widened by overscanCount on each side and clamped to
\* the slots there are
getVirtualItems(scrollOffset, viewportHeight, overscanCount, measured) ==
  LET sizes == itemSizes(measured)
      starts == [i \in DOMAIN sizes |-> SumOver([j \in 0..(i - 1) |-> sizes[j]])]
      visible == {i \in DOMAIN sizes :
                    /\ starts[i] <= scrollOffset + viewportHeight
                    /\ starts[i] + sizes[i] >= scrollOffset}
  IN  {i \in DOMAIN sizes :
         \E v \in visible : i >= v - overscanCount /\ i <= v + overscanCount}

\* the virtual container is rendered: no error, a loaded Document and
\* numPages > 0
VirtualContainerRendered ==
  /\ ContainerRendered
  /\ error = NoError
  /\ docState = "loaded"
  /\ numPages > 0

\* the pageNumber props of the Page elements rendered: pageIndex + 1
renderedPageNumbers(scrollOffset, viewportHeight, measured) ==
  IF VirtualContainerRendered
    THEN {i + 1 : i \in getVirtualItems(scrollOffset, viewportHeight, overscan, measured)}
    ELSE {}

\* faulty variant: an index that has an entry keeps it
RecordSet_KeepsFirst(prev, pageIndex, value) ==
  [i \in DOMAIN prev \cup {pageIndex} |-> IF i \in DOMAIN prev THEN prev[i] ELSE value]

\* setPageHeights / setPageWidths: {...prev, [pageIndex]: value}
RecordSet(prev, pageIndex, value) ==
  [i \in DOMAIN prev \cup {pageIndex} |-> IF i = pageIndex THEN value ELSE prev[i]]

\* the state a viewer is created with, for the reference f
InitialViewer(f) ==
  /\ mounted' = TRUE
  /\ fileUrl' = f
  /\ file' = mergeFileUrlWithStreamlitUrl(f)
  /\ numPages' = 0
  /\ loading' = TRUE
  /\ error' = NoError
  /\ zoom' = INITIAL_ZOOM
  /\ showZoomControls' = FALSE
  /\ pageHeights' = EmptyRecord
  /\ pageWidths' = EmptyRecord
  /\ containerWidth' = 0
  /\ timeoutRef' = FALSE
  /\ timerPending' = FALSE
  /\ isHovering' = FALSE
  /\ pointerInside' = FALSE
  /\ moveAttached' = FALSE
     \* the mount effects find contentRef.current only when a file is rendered
  /\ scrollAttached' = Truthy(mergeFileUrlWithStreamlitUrl(f))
  /\ resizeObserved' = Truthy(mergeFileUrlWithStreamlitUrl(f))
     \* the Document is rendered (error is null) and opens the file
  /\ docState' = IF Truthy(mergeFileUrlWithStreamlitUrl(f)) THEN "loading" ELSE "none"
  /\ failedPages' = {}
  /\ loadErrorMessage' = <<>>
  /\ deliveredPages' = EmptyRecord
  /\ pendingTimeouts' = 0
  /\ measureTarget' = NoElement
  /\ measuredZoom' = INITIAL_ZOOM

\* the references the host passes to a viewer
ViewerFileUrls ==
  { Undefined,
    Str(<<"/", "media", "/", "file.pdf">>),
    Str(<<"/", "/", "media", "/", "file.pdf">>),
    Str(<<"https", ":", "/", "/", "example.com", "/", "file.pdf">>) }

\* ------------------------------------------------------------------------
\* Events of a viewer

\* index.tsx ComponentEntry with no root for the parent element: createRoot
\* and the first render
Mount(f) ==
  /\ ~mounted
  /\ InitialViewer(f)
  /\ UNCHANGED <<parentOverride, locationSearch, locationPath, result, again, upc>>
  /\ UNCHANGED otherViewer

\* faulty variant: the Document stays rendered when the reference is removed
SetFile_KeepsDocument(f) ==
  /\ mounted
  /\ f # fileUrl
  /\ fileUrl' = f
  /\ file' = mergeFileUrlWithStreamlitUrl(f)
  /\ LET newFile == mergeFileUrlWithStreamlitUrl(f)
     IN  IF ~Truthy(newFile)
         THEN \* the no-file placeholder is rendered in the root element,
              \* which React keeps; the content element is no longer one
              /\ docState' = docState
              /\ failedPages' = {}
              /\ scrollAttached' = FALSE
              /\ resizeObserved' = FALSE
         ELSE /\ docState' = IF error # NoError THEN "none"
                             ELSE IF Truthy(file) /\ newFile = file THEN docState
                             ELSE "loading"
              \* the pages stay as they are only under the Document that stays
              /\ failedPages' = IF error = NoError /\ Truthy(file) /\ newFile = file
                                THEN failedPages ELSE {}
              /\ UNCHANGED <<scrollAttached, resizeObserved>>
  /\ UNCHANGED <<mounted, numPages, loading, error, loadErrorMessage, deliveredPages, pendingTimeouts, measureTarget, measuredZoom, zoom,
                 showZoomControls, pageHeights, pageWidths, containerWidth, timeoutRef,
                 timerPending, isHovering, pointerInside, moveAttached>>
  /\ UNCHANGED <<parentOverride, locationSearch, locationPath, result, again, upc>>
  /\ UNCHANGED otherViewer

\* variant: the effects run again when the content element appears
SetFile_Reattaches(f) ==
  /\ mounted
  /\ f # fileUrl
  /\ fileUrl' = f
  /\ file' = mergeFileUrlWithStreamlitUrl(f)
  /\ LET newFile == mergeFileUrlWithStreamlitUrl(f)
     IN  IF ~Truthy(newFile)
         THEN \* the no-file placeholder is rendered in the root element,
              \* which React keeps; the content element is no longer one
              /\ docState' = "none"
              /\ failedPages' = {}
              /\ scrollAttached' = FALSE
              /\ resizeObserved' = FALSE
         ELSE /\ docState' = IF error # NoError THEN "none"
                             ELSE IF Truthy(file) /\ newFile = file THEN docState
                             ELSE "loading"
              \* the pages stay as they are only under the Document that stays
              /\ failedPages' = IF error = NoError /\ Truthy(file) /\ newFile = file
                                THEN failedPages ELSE {}
              /\ scrollAttached' = TRUE
              /\ resizeObserved' = TRUE
  /\ UNCHANGED <<mounted, numPages, loading, error, loadErrorMessage, deliveredPages, pendingTimeouts, measureTarget, measuredZoom, zoom,
                 showZoomControls, pageHeights, pageWidths, containerWidth, timeoutRef,
                 timerPending, isHovering, pointerInside, moveAttached>>
  /\ UNCHANGED <<parentOverride, locationSearch, locationPath, result, again, upc>>
  /\ UNCHANGED otherViewer

\* index.tsx ComponentEntry on the existing root: the same PDFViewer is
\* rendered with a new file prop and keeps its state
SetFile(f) ==
  /\ mounted
  /\ f # fileUrl
  /\ fileUrl' = f
  /\ file' = mergeFileUrlWithStreamlitUrl(f)
  /\ LET newFile == mergeFileUrlWithStreamlitUrl(f)
     IN  IF ~Truthy(newFile)
         THEN \* the no-file placeholder is rendered in the root element,
              \* which React keeps; the content element is no longer one
              /\ docState' = "none"
              /\ failedPages' = {}
              /\ scrollAttached' = FALSE
              /\ resizeObserved' = FALSE
         ELSE /\ docState' = IF error # NoError THEN "none"
                             ELSE IF Truthy(file) /\ newFile = file THEN docState
                             ELSE "loading"
              \* the pages stay as they are only under the Document that stays
              /\ failedPages' = IF error = NoError /\ Truthy(file) /\ newFile = file
                                THEN failedPages ELSE {}
              /\ UNCHANGED <<scrollAttached, resizeObserved>>
  /\ UNCHANGED <<mounted, numPages, loading, error, loadErrorMessage, deliveredPages, pendingTimeouts, measureTarget, measuredZoom, zoom,
                 showZoomControls, pageHeights, pageWidths, containerWidth, timeoutRef,
                 timerPending, isHovering, pointerInside, moveAttached>>
  /\ UNCHANGED <<parentOverride, locationSearch, locationPath, result, again, upc>>
  /\ UNCHANGED otherViewer

\* faulty variant: the cleanup of the inactivity effect does not clear the timeout
Unmount_LeavesTimer ==
  /\ mounted
  /\ mounted' = FALSE
  /\ fileUrl' = Undefined
  /\ file' = Undefined
  /\ numPages' = 0
  /\ loading' = TRUE
  /\ error' = NoError
  /\ zoom' = INITIAL_ZOOM
  /\ showZoomControls' = FALSE
  /\ pageHeights' = EmptyRecord
  /\ pageWidths' = EmptyRecord
  /\ containerWidth' = 0
  /\ timeoutRef' = FALSE
  /\ UNCHANGED timerPending
  /\ isHovering' = FALSE
  /\ pointerInside' = FALSE
  /\ moveAttached' = FALSE
  /\ scrollAttached' = FALSE
  /\ resizeObserved' = FALSE
  /\ docState' = "none"
  /\ failedPages' = {}
  /\ loadErrorMessage' = <<>>
  /\ deliveredPages' = EmptyRecord
  /\ UNCHANGED pendingTimeouts
  /\ measureTarget' = NoElement
  /\ measuredZoom' = INITIAL_ZOOM
  /\ UNCHANGED <<parentOverride, locationSearch, locationPath, result, again, upc>>
  /\ UNCHANGED otherViewer

\* the cleanup ComponentEntry returns: reactRoot.unmount()
Unmount ==
  /\ mounted
  /\ mounted' = FALSE
  /\ fileUrl' = Undefined
  /\ file' = Undefined
  /\ numPages' = 0
  /\ loading' = TRUE
  /\ error' = NoError
  /\ zoom' = INITIAL_ZOOM
  /\ showZoomControls' = FALSE
  /\ pageHeights' = EmptyRecord
  /\ pageWidths' = EmptyRecord
  /\ containerWidth' = 0
  /\ timeoutRef' = FALSE
  /\ timerPending' = FALSE
  /\ isHovering' = FALSE
  /\ pointerInside' = FALSE
  /\ moveAttached' = FALSE
  /\ scrollAttached' = FALSE
  /\ resizeObserved' = FALSE
  /\ docState' = "none"
  /\ failedPages' = {}
  /\ loadErrorMessage' = <<>>
  /\ deliveredPages' = EmptyRecord
  /\ pendingTimeouts' = 0
  /\ measureTarget' = NoElement
  /\ measuredZoom' = INITIAL_ZOOM
  /\ UNCHANGED <<parentOverride, locationSearch, locationPath, result, again, upc>>
  /\ UNCHANGED otherViewer

\* Document onLoadSuccess
onDocumentLoadSuccess(n) ==
  /\ docState = "loading"
  /\ LET st == DocumentLoadSuccessState(n)
     IN  /\ numPages' = st.numPages
         /\ loading' = st.loading
         /\ error' = st.error
  /\ docState' = "loaded"
  /\ UNCHANGED <<mounted, file, failedPages, loadErrorMessage, deliveredPages, pendingTimeouts, measureTarget, measuredZoom, zoom, showZoomControls, pageHeights, pageWidths,
                 containerWidth, timeoutRef, timerPending, isHovering,
                 pointerInside, moveAttached, scrollAttached, resizeObserved>>
  /\ UNCHANGED urlVars
  /\ UNCHANGED otherViewer

\* Document onLoadError; with an error set the Document is no longer rendered
onDocumentLoadError(message) ==
  /\ docState = "loading"
  /\ LET st == DocumentLoadErrorState(message)
     IN  /\ numPages' = st.numPages
         /\ loading' = st.loading
         /\ error' = st.error
  /\ loadErrorMessage' = message
  /\ docState' = "none"
  /\ UNCHANGED <<mounted, file, failedPages, deliveredPages, pendingTimeouts, measureTarget, measuredZoom, zoom, showZoomControls, pageHeights, pageWidths,
                 containerWidth, timeoutRef, timerPending, isHovering,
                 pointerInside, moveAttached, scrollAttached, resizeObserved>>
  /\ UNCHANGED urlVars
  /\ UNCHANGED otherViewer

\* Page onLoadSuccess for a page of the open document; with at most four
\* pages every page is within the overscan of 3 of the visible ones
onPageLoadSuccess(pageIndex, page) ==
  /\ docState = "loaded"
  /\ pageIndex \in 0..(numPages - 1)
  /\ pageHeights' = RecordSet(pageHeights, pageIndex, page.height)
  /\ pageWidths' = RecordSet(pageWidths, pageIndex, page.width)
  /\ failedPages' = failedPages \ {pageIndex}
  /\ deliveredPages' = [i \in DOMAIN deliveredPages \cup {pageIndex} |->
                          IF i = pageIndex THEN page ELSE deliveredPages[i]]
  /\ UNCHANGED pendingTimeouts
     \* virtualizer.measureElement(virtualizer.scrollElement)
  /\ measureTarget' = measureElementTarget(pageIndex)
  /\ UNCHANGED measuredZoom
  /\ UNCHANGED <<mounted, file, numPages, loading, error, loadErrorMessage, zoom, showZoomControls,
                 containerWidth, timeoutRef, timerPending, isHovering,
                 pointerInside, moveAttached, scrollAttached, resizeObserved,
                 docState>>
  /\ UNCHANGED urlVars
  /\ UNCHANGED otherViewer

\* faulty variant: the late callback also clears the page count
stalePageLoadSuccess_ClearsPages(pageIndex, page) ==
  /\ ContainerRendered
  /\ docState = "loading"
  /\ pageIndex \in 0..(numPages - 1)
  /\ pageHeights' = RecordSet(pageHeights, pageIndex, page.height)
  /\ pageWidths' = RecordSet(pageWidths, pageIndex, page.width)
  /\ numPages' = 0
  /\ deliveredPages' = [i \in DOMAIN deliveredPages \cup {pageIndex} |->
                          IF i = pageIndex THEN page ELSE deliveredPages[i]]
  /\ UNCHANGED pendingTimeouts
  /\ measureTarget' = measureElementTarget(pageIndex)
  /\ UNCHANGED <<mounted, file, loading, error, failedPages, loadErrorMessage, measuredZoom, zoom, showZoomControls,
                 containerWidth, timeoutRef, timerPending, isHovering,
                 pointerInside, moveAttached, scrollAttached, resizeObserved,
                 docState>>
  /\ UNCHANGED urlVars
  /\ UNCHANGED otherViewer

\* onPageLoadSuccess called late by a Page of the document that was open
\* before the reference changed: the Document is opening the new file and
\* numPages is still the old document's.  The callback is the same closure
\* over the same setters and has no reference to compare with.
stalePageLoadSuccess(pageIndex, page) ==
  /\ ContainerRendered
  /\ docState = "loading"
  /\ pageIndex \in 0..(numPages - 1)
  /\ pageHeights' = RecordSet(pageHeights, pageIndex, page.height)
  /\ pageWidths' = RecordSet(pageWidths, pageIndex, page.width)
  /\ deliveredPages' = [i \in DOMAIN deliveredPages \cup {pageIndex} |->
                          IF i = pageIndex THEN page ELSE deliveredPages[i]]
  /\ UNCHANGED pendingTimeouts
  /\ measureTarget' = measureElementTarget(pageIndex)
  /\ UNCHANGED <<mounted, file, numPages, loading, error, failedPages, loadErrorMessage, measuredZoom, zoom, showZoomControls,
                 containerWidth, timeoutRef, timerPending, isHovering,
                 pointerInside, moveAttached, scrollAttached, resizeObserved,
                 docState>>
  /\ UNCHANGED urlVars
  /\ UNCHANGED otherViewer

\* faulty variant: the failure of a page is handled like the failure of the
\* document
PageLoadErrorState_AsDocumentError(message) ==
  [numPages |-> numPages, loading |-> FALSE, error |-> classify(message)]

\* the state a page failure leaves: the Page is given no onLoadError and no
\* onRenderError, so no setter of the viewer is called
PageLoadErrorState(message) ==
  [numPages |-> numPages, loading |-> loading, error |-> error]

\* a Page of the open document fails to load or render with the given
\* message; the Page element shows its failure text
pageLoadError(pageIndex, message) ==
  /\ docState = "loaded"
  /\ pageIndex \in 0..(numPages - 1)
  /\ pageIndex \notin failedPages
  /\ failedPages' = failedPages \cup {pageIndex}
  /\ LET st == PageLoadErrorState(message)
     IN  /\ numPages' = st.numPages
         /\ loading' = st.loading
         /\ error' = st.error
  /\ UNCHANGED <<mounted, file, loadErrorMessage, deliveredPages, pendingTimeouts, measureTarget, measuredZoom, zoom, showZoomControls, pageHeights, pageWidths,
                 containerWidth, timeoutRef, timerPending, isHovering,
                 pointerInside, moveAttached, scrollAttached, resizeObserved,
                 docState>>
  /\ UNCHANGED urlVars
  /\ UNCHANGED otherViewer

\* faulty variant: the update is batched until the handler returns, so the
\* code after it still sees the previous render
flushSync_Batched(rendered, updated) == rendered

\* flushSync(() => setZoom(...)): the update is rendered before flushSync
\* returns, so the code after it sees the render of the updated state
flushSync(rendered, updated) == updated

\* click on the enabled "Zoom In" button
zoomIn ==
  /\ ZoomControlsRendered
  /\ canZoomIn
  /\ zoom' = zoomInValue(zoom)
     \* flushSync renders the new zoom, then virtualizer.measure() runs
  /\ measuredZoom' = flushSync(zoom, zoomInValue(zoom))
  /\ UNCHANGED <<mounted, file, failedPages, loadErrorMessage, deliveredPages, pendingTimeouts, measureTarget, numPages, loading, error, showZoomControls, pageHeights,
                 pageWidths, containerWidth, timeoutRef, timerPending, isHovering,
                 pointerInside, moveAttached, scrollAttached, resizeObserved,
                 docState>>
  /\ UNCHANGED urlVars
  /\ UNCHANGED otherViewer

\* click on the enabled "Zoom Out" button
zoomOut ==
  /\ ZoomControlsRendered
  /\ canZoomOut
  /\ zoom' = zoomOutValue(zoom)
     \* flushSync renders the new zoom, then virtualizer.measure() runs
  /\ measuredZoom' = flushSync(zoom, zoomOutValue(zoom))
  /\ UNCHANGED <<mounted, file, failedPages, loadErrorMessage, deliveredPages, pendingTimeouts, measureTarget, numPages, loading, error, showZoomControls, pageHeights,
                 pageWidths, containerWidth, timeoutRef, timerPending, isHovering,
                 pointerInside, moveAttached, scrollAttached, resizeObserved,
                 docState>>
  /\ UNCHANGED urlVars
  /\ UNCHANGED otherViewer

\* the zoomIn callback called with its button in any state: the updater
\* does not read canZoomIn
zoomInCall ==
  /\ mounted
  /\ zoom' = zoomInValue(zoom)
     \* flushSync renders the new zoom, then virtualizer.measure() runs
  /\ measuredZoom' = flushSync(zoom, zoomInValue(zoom))
  /\ UNCHANGED <<mounted, file, failedPages, loadErrorMessage, deliveredPages, pendingTimeouts, measureTarget, numPages, loading, error, showZoomControls, pageHeights,
                 pageWidths, containerWidth, timeoutRef, timerPending, isHovering,
                 pointerInside, moveAttached, scrollAttached, resizeObserved,
                 docState>>
  /\ UNCHANGED urlVars
  /\ UNCHANGED otherViewer

\* the zoomOut callback called with its button in any state
zoomOutCall ==
  /\ mounted
  /\ zoom' = zoomOutValue(zoom)
     \* flushSync renders the new zoom, then virtualizer.measure() runs
  /\ measuredZoom' = flushSync(zoom, zoomOutValue(zoom))
  /\ UNCHANGED <<mounted, file, failedPages, loadErrorMessage, deliveredPages, pendingTimeouts, measureTarget, numPages, loading, error, showZoomControls, pageHeights,
                 pageWidths, containerWidth, timeoutRef, timerPending, isHovering,
                 pointerInside, moveAttached, scrollAttached, resizeObserved,
                 docState>>
  /\ UNCHANGED urlVars
  /\ UNCHANGED otherViewer

\* faulty variant: a second delivery of the same width is taken for a change
\* and clears the width
updateContainerWidth_Toggles(clientWidth) ==
  /\ ContainerRendered
  /\ resizeObserved
  /\ containerWidth' = IF containerWidth = clientWidth THEN 0 ELSE clientWidth
  /\ UNCHANGED <<mounted, file, failedPages, loadErrorMessage, deliveredPages, pendingTimeouts, measureTarget, measuredZoom, numPages, loading, error, zoom, showZoomControls,
                 pageHeights, pageWidths, timeoutRef, timerPending, isHovering,
                 pointerInside, moveAttached, scrollAttached, resizeObserved,
                 docState>>
  /\ UNCHANGED urlVars
  /\ UNCHANGED otherViewer

\* the ResizeObserver callback: updateContainerWidth
updateContainerWidth(clientWidth) ==
  /\ ContainerRendered
  /\ resizeObserved
  /\ containerWidth' = clientWidth
  /\ UNCHANGED <<mounted, file, failedPages, loadErrorMessage, deliveredPages, pendingTimeouts, measureTarget, measuredZoom, numPages, loading, error, zoom, showZoomControls,
                 pageHeights, pageWidths, timeoutRef, timerPending, isHovering,
                 pointerInside, moveAttached, scrollAttached, resizeObserved,
                 docState>>
  /\ UNCHANGED urlVars
  /\ UNCHANGED otherViewer

\* clearTimeout(inactivityTimeoutRef.current) behind "if the ref is set": the
\* timeout the ref names is cancelled if it is still scheduled
clearTimeout(pending, refSet) ==
  IF refSet /\ pending > 0 THEN pending - 1 ELSE pending

\* faulty variant: the new timeout is scheduled without clearing the old
resetInactivityTimer_NoClear(pending, refSet) == pending + 1

\* resetInactivityTimer: clear the timeout the ref names, schedule a new one
resetInactivityTimer(pending, refSet) == clearTimeout(pending, refSet) + 1

\* faulty variant: the controls are hidden but the timeout is left running
handleScroll_KeepsTimer ==
  /\ ContainerRendered
  /\ scrollAttached
  /\ showZoomControls' = FALSE
  /\ moveAttached' = FALSE
  /\ UNCHANGED <<mounted, file, failedPages, loadErrorMessage, deliveredPages, pendingTimeouts, measureTarget, measuredZoom, numPages, loading, error, zoom, pageHeights, pageWidths,
                 containerWidth, timeoutRef, timerPending, isHovering, pointerInside,
                 scrollAttached, resizeObserved, docState>>
  /\ UNCHANGED urlVars
  /\ UNCHANGED otherViewer

\* the scroll listener: hide the controls, clear and forget the timeout
handleScroll ==
  /\ ContainerRendered
  /\ scrollAttached
  /\ showZoomControls' = FALSE
  /\ timerPending' = FALSE
  /\ pendingTimeouts' = clearTimeout(pendingTimeouts, timeoutRef)
  /\ timeoutRef' = FALSE
  /\ moveAttached' = FALSE
  /\ UNCHANGED <<mounted, file, failedPages, loadErrorMessage, deliveredPages, measureTarget, measuredZoom, numPages, loading, error, zoom, pageHeights, pageWidths,
                 containerWidth, isHovering, pointerInside, scrollAttached,
                 resizeObserved, docState>>
  /\ UNCHANGED urlVars
  /\ UNCHANGED otherViewer

\* faulty variant: the controls are shown but no inactivity timeout is started
onMouseEnter_NoTimer ==
  /\ ContainerRendered
  /\ ~pointerInside
  /\ pointerInside' = TRUE
  /\ isHovering' = TRUE
  /\ showZoomControls' = TRUE
  /\ UNCHANGED <<timeoutRef, timerPending, moveAttached>>
  /\ UNCHANGED <<mounted, file, failedPages, loadErrorMessage, deliveredPages, pendingTimeouts, measureTarget, measuredZoom, numPages, loading, error, zoom, pageHeights, pageWidths,
                 containerWidth, scrollAttached, resizeObserved, docState>>
  /\ UNCHANGED urlVars
  /\ UNCHANGED otherViewer

\* faulty variant: the handler also runs for a pointer that is already inside
onMouseEnter_WhileInside ==
  /\ ContainerRendered
  /\ pointerInside' = TRUE
  /\ isHovering' = TRUE
  /\ showZoomControls' = TRUE
  /\ IF showZoomControls
     THEN UNCHANGED <<timeoutRef, timerPending, moveAttached, pendingTimeouts>>
     ELSE /\ timeoutRef' = TRUE
          /\ timerPending' = TRUE
          /\ moveAttached' = TRUE
          /\ pendingTimeouts' = resetInactivityTimer(pendingTimeouts, timeoutRef)
  /\ UNCHANGED <<mounted, file, failedPages, loadErrorMessage, deliveredPages, measureTarget, measuredZoom, numPages, loading, error, zoom, pageHeights, pageWidths,
                 containerWidth, scrollAttached, resizeObserved, docState>>
  /\ UNCHANGED urlVars
  /\ UNCHANGED otherViewer

\* onMouseEnter; when the controls become shown the effect adds the
\* mousemove listener and starts the inactivity timer
onMouseEnter ==
  /\ ContainerRendered
  /\ ~pointerInside
  /\ pointerInside' = TRUE
  /\ isHovering' = TRUE
  /\ showZoomControls' = TRUE
  /\ IF showZoomControls
     THEN UNCHANGED <<timeoutRef, timerPending, moveAttached, pendingTimeouts>>
     ELSE /\ timeoutRef' = TRUE
          /\ timerPending' = TRUE
          /\ moveAttached' = TRUE
          /\ pendingTimeouts' = resetInactivityTimer(pendingTimeouts, timeoutRef)
  /\ UNCHANGED <<mounted, file, failedPages, loadErrorMessage, deliveredPages, measureTarget, measuredZoom, numPages, loading, error, zoom, pageHeights, pageWidths,
                 containerWidth, scrollAttached, resizeObserved, docState>>
  /\ UNCHANGED urlVars
  /\ UNCHANGED otherViewer

\* faulty variant: the controls are hidden but the timeout is left running
onMouseLeave_KeepsTimer ==
  /\ ContainerRendered
  /\ pointerInside
  /\ pointerInside' = FALSE
  /\ isHovering' = FALSE
  /\ showZoomControls' = FALSE
  /\ moveAttached' = FALSE
  /\ UNCHANGED <<timeoutRef, timerPending>>
  /\ UNCHANGED <<mounted, file, failedPages, loadErrorMessage, deliveredPages, pendingTimeouts, measureTarget, measuredZoom, numPages, loading, error, zoom, pageHeights, pageWidths,
                 containerWidth, scrollAttached, resizeObserved, docState>>
  /\ UNCHANGED urlVars
  /\ UNCHANGED otherViewer

\* onMouseLeave: hide the controls, clear and forget the timeout
onMouseLeave ==
  /\ ContainerRendered
  /\ pointerInside
  /\ pointerInside' = FALSE
  /\ isHovering' = FALSE
  /\ showZoomControls' = FALSE
  /\ timerPending' = FALSE
  /\ pendingTimeouts' = clearTimeout(pendingTimeouts, timeoutRef)
  /\ timeoutRef' = FALSE
  /\ moveAttached' = FALSE
  /\ UNCHANGED <<mounted, file, failedPages, loadErrorMessage, deliveredPages, measureTarget, measuredZoom, numPages, loading, error, zoom, pageHeights, pageWidths,
                 containerWidth, scrollAttached, resizeObserved, docState>>
  /\ UNCHANGED urlVars
  /\ UNCHANGED otherViewer

\* the mousemove listener on the root element: resetInactivityTimer
handleMouseMove ==
  /\ mounted
  /\ pointerInside
  /\ moveAttached
  /\ timerPending' = TRUE
  /\ pendingTimeouts' = resetInactivityTimer(pendingTimeouts, timeoutRef)
  /\ timeoutRef' = TRUE
  /\ UNCHANGED <<mounted, file, failedPages, loadErrorMessage, deliveredPages, measureTarget, measuredZoom, numPages, loading, error, zoom, showZoomControls,
                 pageHeights, pageWidths, containerWidth, isHovering, pointerInside,
                 moveAttached, scrollAttached, resizeObserved, docState>>
  /\ UNCHANGED urlVars
  /\ UNCHANGED otherViewer

\* the pointer crosses the border of the no-file placeholder, which has no
\* onMouseEnter and no onMouseLeave
placeholderPointerCrossing ==
  /\ mounted
  /\ ~Truthy(file)
  /\ pointerInside' = ~pointerInside
  /\ UNCHANGED <<mounted, file, failedPages, loadErrorMessage, deliveredPages, pendingTimeouts, measureTarget, measuredZoom, numPages, loading, error, zoom, showZoomControls,
                 pageHeights, pageWidths, containerWidth, timeoutRef, timerPending,
                 isHovering, moveAttached, scrollAttached, resizeObserved, docState>>
  /\ UNCHANGED urlVars
  /\ UNCHANGED otherViewer

\* the inactivity timeout fires: setShowZoomControls(false); the effect
\* cleanup removes the mousemove listener
inactivityTimeout ==
  /\ timerPending
  /\ timerPending' = FALSE
  /\ pendingTimeouts' = pendingTimeouts - 1
  /\ showZoomControls' = FALSE
  /\ moveAttached' = FALSE
  /\ UNCHANGED <<mounted, file, failedPages, loadErrorMessage, deliveredPages, measureTarget, measuredZoom, numPages, loading, error, zoom, pageHeights, pageWidths,
                 containerWidth, timeoutRef, isHovering, pointerInside,
                 scrollAttached, resizeObserved, docState>>
  /\ UNCHANGED urlVars
  /\ UNCHANGED otherViewer

\* ------------------------------------------------------------------------
\* Inputs of the resolution runs

\* largest number of leading slashes put before a reference
MaxLeadingSlashes == 2

\* largest number of trailing slashes put after a base signal
MaxTrailingSlashes == 2

Slashes(k) == [i \in 1..k |-> "/"]

\* references without their leading slashes
RefBodies ==
  { <<>>,
    <<"media", "/", "file.pdf">>,
    <<"media", "/", "sub", "/", "dir", "/", "file.pdf">>,
    <<"media", "/", "/", "file.pdf">>,
    <<"media", "/">>,
    <<"media">>,
    <<"mediax", "/", "file.pdf">>,
    <<"static", "/", "file.pdf">>,
    <<"cdn.example.com", "/", "file.pdf">>,
    <<"https", ":", "/", "/", "example.com", "/", "file.pdf">>,
    <<"data", ":", "application", "/", "pdf;base64,AAA">>,
    <<"blob", ":", "https", ":", "/", "/", "example.com", "/", "123">> }

FileUrls ==
  {Undefined} \cup
  {Str(Slashes(k) \o b) : k \in 0..MaxLeadingSlashes, b \in RefBodies}

\* the references that pass the "/media/" prefix test
MediaFileUrls ==
  {f \in FileUrls : f.some /\ StartsWith(CollapseLeadingSlashes(f.val), BASE_MEDIA_PATH)}

\* base signals: a stem, a path and trailing slashes
BaseStems ==
  { <<"http", ":", "/", "/", "localhost", ":", "8501">>,
    <<"http", ":", "/", "/", "localhost", ":", "80">>,
    <<"https", ":", "/", "/", "example.com">>,
    <<"foo", ":">>,
    <<"localhost", ":", "8501">>,
    <<"http", ":">>,
    <<"localhost">>,
    <<>> }

BasePaths ==
  { <<>>,
    <<"/", "app">>,
    <<"/", "app", "/", "page">>,
    <<"/", "app", "/", "/", "page">>,
    <<"/", "/", "app", "/", "page">>,
    <<"/", "media">> }

BaseSignals ==
  {st \o p \o Slashes(k) : st \in BaseStems, p \in BasePaths, k \in 0..MaxTrailingSlashes}
  \cup {<<"http", ":", "/", "/", "localhost", ":", "8501", "/", "app", "/", "page", "?", "x">>}

Overrides == {Undefined} \cup {Str(b) : b \in BaseSignals}

SmallOverrides ==
  { Undefined,
    Str(<<>>),
    Str(<<"https", ":", "/", "/", "example.com", "/", "app", "/">>),
    Str(<<"/", "app">>) }

StreamlitUrlParam == <<"?", "streamlitUrl", "=">>

Searches ==
  {<<>>, <<"?", "foo", "=", "bar", "&", "baz", "=", "1">>}
  \cup {StreamlitUrlParam \o b : b \in BaseSignals}

SmallSearches ==
  { <<>>,
    <<"?", "foo", "=", "bar", "&", "baz", "=", "1">>,
    <<"?", "streamlitUrl">>,
    StreamlitUrlParam \o <<"http", ":", "/", "/", "localhost", ":", "8501">>,
    StreamlitUrlParam \o <<"http", "%3A", "%2F", "%2F", "localhost", "%3A", "8501", "%2F">>,
    <<"?", "foo", "=", "bar", "&">> \o Tail(StreamlitUrlParam)
       \o <<"&">> \o Tail(StreamlitUrlParam) \o <<"http", ":", "/", "/", "localhost", ":", "8501">> }

LocationPaths == {<<"http", ":", "/", "/", "localhost", ":", "8501", "/", "app", "/", "page">>}

\* the (override, search) pairs: one signal ranges over everything while
\* the other ranges over a few values
Envs ==
  (SmallOverrides \X Searches) \cup (Overrides \X SmallSearches)

SmallEnvs == SmallOverrides \X SmallSearches

UrlInputs == (MediaFileUrls \X Envs) \cup (FileUrls \X SmallEnvs)

\* ------------------------------------------------------------------------
\* A resolution run: the page context is fixed, the reference is resolved,
\* and the result is resolved once more.

\* ------------------------------------------------------------------------
\* index.tsx reactRoots: a second parent element of the same page.  Every
\* PDFViewer keeps its state in its own hooks and refs; the module keeps one
\* WeakMap from parent elements to roots.

FirstParent == "parentElement1"

SecondParent == "parentElement2"

\* faulty variant: one root for the module, whatever the parent element
reactRootKey_Module(parentElement) == "module"

\* reactRoots.get(parentElement) / reactRoots.set(parentElement, reactRoot)
reactRootKey(parentElement) == parentElement

\* the viewer variables of the first parent element's root are unchanged
firstViewerUnchanged == UNCHANGED <<urlVars, viewerVars>>

\* ComponentEntry for the second parent element: a root found under its key
\* is rendered again, else a root is created and a viewer mounted in it
other_ComponentEntry(f) ==
  IF reactRootKey(SecondParent) = reactRootKey(FirstParent)
  THEN IF mounted THEN SetFile(f) ELSE Mount(f)
  ELSE /\ ~otherViewer.mounted
       /\ Truthy(mergeFileUrlWithStreamlitUrl(f))
       /\ otherViewer' = [NoOtherViewer EXCEPT !.mounted = TRUE]
       /\ firstViewerUnchanged

\* the cleanup ComponentEntry returned for the second parent element
other_cleanup ==
  IF reactRootKey(SecondParent) = reactRootKey(FirstParent)
  THEN Unmount
  ELSE /\ otherViewer.mounted
       /\ otherViewer' = NoOtherViewer
       /\ firstViewerUnchanged

\* the callbacks and handlers of the second viewer, on its own state
other_onDocumentLoadSuccess(n) ==
  /\ otherViewer.mounted
  /\ otherViewer.loading
  /\ LET st == DocumentLoadSuccessState(n)
     IN  otherViewer' = [otherViewer EXCEPT !.numPages = st.numPages,
                                            !.loading = st.loading,
                                            !.error = st.error]
  /\ firstViewerUnchanged

other_onDocumentLoadError(message) ==
  /\ otherViewer.mounted
  /\ otherViewer.loading
  /\ LET st == DocumentLoadErrorState(message)
     IN  otherViewer' = [otherViewer EXCEPT !.loading = st.loading,
                                            !.error = st.error]
  /\ firstViewerUnchanged

other_onPageLoadSuccess(pageIndex, page) ==
  /\ otherViewer.mounted
  /\ pageIndex \in 0..(otherViewer.numPages - 1)
  /\ otherViewer' = [otherViewer EXCEPT
                       !.pageHeights = RecordSet(@, pageIndex, page.height)]
  /\ firstViewerUnchanged

other_zoomIn ==
  /\ otherViewer.mounted
  /\ ~otherViewer.loading
  /\ otherViewer.error = NoError
  /\ otherViewer.zoom < MAX_ZOOM
  /\ otherViewer' = [otherViewer EXCEPT !.zoom = zoomInValue(@)]
  /\ firstViewerUnchanged

other_onMouseEnter ==
  /\ otherViewer.mounted
  /\ ~otherViewer.showZoomControls
  /\ otherViewer' = [otherViewer EXCEPT !.showZoomControls = TRUE,
                                        !.timerPending = TRUE]
  /\ firstViewerUnchanged

other_handleScroll ==
  /\ otherViewer.mounted
  /\ otherViewer.showZoomControls
  /\ otherViewer' = [otherViewer EXCEPT !.showZoomControls = FALSE,
                                        !.timerPending = FALSE]
  /\ firstViewerUnchanged

other_inactivityTimeout ==
  /\ otherViewer.timerPending
  /\ otherViewer' = [otherViewer EXCEPT !.showZoomControls = FALSE,
                                        !.timerPending = FALSE]
  /\ firstViewerUnchanged

\* no viewer is mounted during a resolution run
NoViewer ==
  /\ mounted = FALSE
  /\ file = Undefined
  /\ numPages = 0
  /\ loading = TRUE
  /\ error = NoError
  /\ zoom = INITIAL_ZOOM
  /\ showZoomControls = FALSE
  /\ pageHeights = EmptyRecord
  /\ pageWidths = EmptyRecord
  /\ containerWidth = 0
  /\ timeoutRef = FALSE
  /\ timerPending = FALSE
  /\ isHovering = FALSE
  /\ pointerInside = FALSE
  /\ moveAttached = FALSE
  /\ scrollAttached = FALSE
  /\ resizeObserved = FALSE
  /\ docState = "none"
  /\ failedPages = {}
  /\ loadErrorMessage = <<>>
  /\ deliveredPages = EmptyRecord
  /\ pendingTimeouts = 0
  /\ measureTarget = NoElement
  /\ measuredZoom = INITIAL_ZOOM
  /\ otherViewer = NoOtherViewer

InitUrl ==
  /\ NoViewer
  /\ \E in \in UrlInputs :
       /\ fileUrl = in[1]
       /\ parentOverride = in[2][1]
       /\ locationSearch = in[2][2]
  /\ locationPath \in LocationPaths
  /\ result = Undefined
  /\ again = Undefined
  /\ upc = "start"

Resolve ==
  /\ upc = "start"
  /\ result' = mergeFileUrlWithStreamlitUrl(fileUrl)
  /\ upc' = "resolved"
  /\ UNCHANGED <<parentOverride, locationSearch, locationPath, fileUrl, again>>
  /\ UNCHANGED viewerVars
  /\ UNCHANGED otherViewer

ResolveAgain ==
  /\ upc = "resolved"
  /\ again' = mergeFileUrlWithStreamlitUrl(result)
  /\ upc' = "done"
  /\ UNCHANGED <<parentOverride, locationSearch, locationPath, fileUrl, result>>
  /\ UNCHANGED viewerVars
  /\ UNCHANGED otherViewer

NextUrl == Resolve \/ ResolveAgain

SpecUrl == InitUrl /\ [][NextUrl]_vars

\* ------------------------------------------------------------------------
\* A viewer run: one viewer, its events in any order

\* the page context of the viewer runs
ViewerEnvs ==
  { <<Undefined, StreamlitUrlParam \o <<"http", ":", "/", "/", "localhost", ":", "8501">>>> }

Init ==
  /\ \E env \in ViewerEnvs : parentOverride = env[1] /\ locationSearch = env[2]
  /\ locationPath \in LocationPaths
  /\ result = Undefined
  /\ again = Undefined
  /\ upc = "start"
  /\ fileUrl \in ViewerFileUrls
  /\ file = mergeFileUrlWithStreamlitUrl(fileUrl)
  /\ mounted = TRUE
  /\ numPages = 0
  /\ loading = TRUE
  /\ error = NoError
  /\ zoom = INITIAL_ZOOM
  /\ showZoomControls = FALSE
  /\ pageHeights = EmptyRecord
  /\ pageWidths = EmptyRecord
  /\ containerWidth = 0
  /\ timeoutRef = FALSE
  /\ timerPending = FALSE
  /\ isHovering = FALSE
  /\ pointerInside = FALSE
  /\ moveAttached = FALSE
  /\ scrollAttached = Truthy(file)
  /\ resizeObserved = Truthy(file)
  /\ docState = IF Truthy(file) THEN "loading" ELSE "none"
  /\ failedPages = {}
  /\ loadErrorMessage = <<>>
  /\ deliveredPages = EmptyRecord
  /\ pendingTimeouts = 0
  /\ measureTarget = NoElement
  /\ measuredZoom = INITIAL_ZOOM
  /\ otherViewer = NoOtherViewer

Next ==
  \/ \E f \in ViewerFileUrls : Mount(f)
  \/ \E f \in ViewerFileUrls : SetFile(f)
  \/ Unmount
  \/ \E n \in 1..MaxPages : onDocumentLoadSuccess(n)
  \/ \E m \in ErrorMessages : onDocumentLoadError(m)
  \/ \E i \in 0..(MaxPages - 1), page \in PageSizes : onPageLoadSuccess(i, page)
  \/ zoomIn
  \/ zoomOut
  \/ \E w \in ContentWidths : updateContainerWidth(w)
  \/ handleScroll
  \/ onMouseEnter
  \/ onMouseLeave
  \/ handleMouseMove
  \/ placeholderPointerCrossing
  \/ inactivityTimeout

Spec == Init /\ [][Next]_vars

\* ------------------------------------------------------------------------
\* A viewer run with the events of the render engine only: the opens of
\* documents and the loads of pages, with their failures.  A page failure
\* changes failedPages alone, which no other event reads, so Spec leaves it
\* out and is this run seen without the Page elements' failure texts.

NextPages ==
  \/ \E f \in ViewerFileUrls : Mount(f)
  \/ \E f \in ViewerFileUrls : SetFile(f)
  \/ Unmount
  \/ \E n \in 1..MaxPages : onDocumentLoadSuccess(n)
  \/ \E m \in ErrorMessages : onDocumentLoadError(m)
  \/ \E i \in 0..(MaxPages - 1), page \in PageSizes : onPageLoadSuccess(i, page)
  \/ \E i \in 0..(MaxPages - 1), m \in ErrorMessages : pageLoadError(i, m)

SpecPages == Init /\ [][NextPages]_vars

\* ------------------------------------------------------------------------
\* The zoom callbacks as functions of the current zoom: the run of the render
\* engine's events with the two callbacks called at any zoom, the bounds
\* included, where the buttons of the toolbar are disabled.

NextZoom ==
  \/ NextPages
  \/ zoomIn
  \/ zoomOut
  \/ zoomInCall
  \/ zoomOutCall

SpecZoom == Init /\ [][NextZoom]_vars

\* ------------------------------------------------------------------------
\* The page metrics: viewers that open documents of up to MaxMetricPages
\* pages, whose pages load in any order and any number of times with the
\* sizes of MetricPageSizes, at any zoom.

NextMetrics ==
  \/ \E f \in ViewerFileUrls : SetFile(f)
  \/ \E n \in 1..MaxMetricPages : onDocumentLoadSuccess(n)
  \/ \E i \in 0..(MaxMetricPages - 1), page \in MetricPageSizes : onPageLoadSuccess(i, page)
  \/ zoomIn
  \/ zoomOut

SpecMetrics == Init /\ [][NextMetrics]_vars

\* ------------------------------------------------------------------------
\* The classification of failure messages: viewers whose document fails to
\* open with any of the messages of ClassifierMessages.

NextClassify ==
  \/ \E f \in ViewerFileUrls : Mount(f)
  \/ \E f \in ViewerFileUrls : SetFile(f)
  \/ Unmount
     \* the Document reports a failure only while it opens a file
  \/ /\ docState = "loading"
     /\ \E m \in ClassifierMessages : onDocumentLoadError(m)

SpecClassify == Init /\ [][NextClassify]_vars

\* ------------------------------------------------------------------------
\* Vocabulary of the claims about URL resolution, written from the words of
\* the claims and not from the operators of urlUtils.ts above.

\* s begins with one or more "/", then "media", then "/"
IsMediaReference(s) ==
  \E k \in 1..Len(s) :
    /\ \A i \in 1..k : s[i] = "/"
    /\ Len(s) >= k + 2
    /\ s[k + 1] = "media"
    /\ s[k + 2] = "/"

\* s without its leading slashes: the suffix from the first non-slash lexeme
WithoutLeadingSlashes(s) ==
  LET n == CHOOSE i \in 1..(Len(s) + 1) :
             /\ (i = Len(s) + 1 \/ s[i] # "/")
             /\ \A j \in 1..(i - 1) : s[j] = "/"
  IN  SubSeq(s, n, Len(s))

\* s without its trailing slashes: the prefix up to the last non-slash lexeme
WithoutTrailingSlashes(s) ==
  LET n == CHOOSE i \in 0..Len(s) :
             /\ (i = 0 \/ s[i] # "/")
             /\ \A j \in (i + 1)..Len(s) : s[j] = "/"
  IN  SubSeq(s, 1, n)

\* the longest prefix of p that ends in "/", or "/" when p holds no "/":
\* p itself when p ends in "/", p with its last segment dropped otherwise
LastSegmentDropped(p) ==
  IF \A i \in 1..Len(p) : p[i] # "/" THEN <<"/">>
  ELSE SubSeq(p, 1, CHOOSE i \in 1..Len(p) :
                      p[i] = "/" /\ \A j \in (i + 1)..Len(p) : p[j] # "/")

\* a path made of slashes only (the root, however many slashes are written)
IsRootPath(p) == \A i \in 1..Len(p) : p[i] = "/"

\* a has no run of two or more "/", begins with "/" and ends with "/"
IsNormalBasePath(a) ==
  /\ Len(a) >= 1
  /\ a[1] = "/"
  /\ a[Len(a)] = "/"
  /\ \A i \in 1..(Len(a) - 1) : ~(a[i] = "/" /\ a[i + 1] = "/")

\* the reference of the run is a string that passes the media prefix test
MediaRun == upc # "start" /\ fileUrl.some /\ IsMediaReference(fileUrl.val)

\* the streamlitUrl query parameter of the current page, if it has a value
QueryParameter ==
  LET v == ParamsGet(SearchParams(locationSearch), <<"streamlitUrl">>)
  IN  IF Truthy(v) THEN v ELSE Undefined

\* the base signal of the run and its parse
BaseSignal == IF Truthy(parentOverride) THEN parentOverride ELSE QueryParameter

BaseUrl == ParseURL(BaseSignal.val)

\* ------------------------------------------------------------------------
\* Claims

\* C1: every reference string that is not a media reference (the empty
\* string included) is returned exactly as given, whatever the base signal.
C1_NonMediaReturnedUnchanged ==
  (upc # "start" /\ fileUrl.some /\ ~IsMediaReference(fileUrl.val))
    => result = fileUrl

\* C1, for the non-empty references: they are returned exactly as given.
C1_NonEmptyNonMediaUnchanged ==
  (upc # "start" /\ Truthy(fileUrl) /\ ~IsMediaReference(fileUrl.val))
    => result = fileUrl

\* C2: with a base signal that parses, the media path is anchored at the
\* base path with its last segment dropped when the path ends in a non-slash
\* segment ("/" when nothing remains) and at the path itself when it ends in
\* "/" (then normalised as C6 states).
C2_LastSegmentDropped ==
  (MediaRun /\ Truthy(BaseSignal) /\ BaseUrl.ok)
    => result = Str(BaseUrl.origin
                    \o NormalizeBasePath(LastSegmentDropped(BaseUrl.pathname))
                    \o WithoutLeadingSlashes(fileUrl.val))

C2_Witness ==
  /\ upc = "resolved"
  /\ parentOverride = Str(<<"http", ":", "/", "/", "localhost", ":", "8501", "/", "app", "/", "page">>)
  /\ fileUrl = Str(<<"/", "media", "/", "file.pdf">>)
  /\ result = Str(<<"http", ":", "/", "/", "localhost", ":", "8501", "/", "app", "/",
                    "media", "/", "file.pdf">>)

C2_WitnessNothingRemains ==
  /\ upc = "resolved"
  /\ parentOverride = Str(<<"localhost", ":", "8501">>)
  /\ fileUrl = Str(<<"/", "media", "/", "file.pdf">>)
  /\ result = Str(<<"null", "/", "media", "/", "file.pdf">>)

\* the run resolved a media reference against a base signal that parses
ParsedRun == MediaRun /\ Truthy(BaseSignal) /\ BaseUrl.ok

\* C3: for every valid base signal B and media path P, resolving P under B
\* gives the same result as resolving P under B with its trailing slashes
\* stripped.
C3_TrailingSlashesNeverMatter ==
  (ParsedRun /\ BaseSignal.val[1] \in SpecialSchemes)
    => result = MergeWith(fileUrl, Str(WithoutTrailingSlashes(BaseSignal.val)))

\* C3, as it holds: the number of leading slashes of P never matters; the
\* number of trailing slashes of B does not matter as long as there is one;
\* and B gives the same result as B with its trailing slashes stripped when
\* the path of B is the root.
C3_SlashCountsDoNotMatter ==
  ParsedRun
    => /\ result = MergeWith(Str(<<"/">> \o WithoutLeadingSlashes(fileUrl.val)),
                             BaseSignal)
       /\ EndsWithSlash(BaseSignal.val)
            => result = MergeWith(fileUrl,
                          Str(WithoutTrailingSlashes(BaseSignal.val) \o <<"/">>))
       /\ IsRootPath(BaseUrl.pathname)
            => result = MergeWith(fileUrl,
                          Str(WithoutTrailingSlashes(BaseSignal.val)))

C3_Witness ==
  /\ upc = "resolved"
  /\ parentOverride = Undefined
  /\ locationSearch = StreamlitUrlParam
       \o <<"http", ":", "/", "/", "localhost", ":", "8501", "/", "/">>
  /\ fileUrl = Str(<<"/", "/", "media", "/", "file.pdf">>)
  /\ result = Str(<<"http", ":", "/", "/", "localhost", ":", "8501", "/",
                    "media", "/", "file.pdf">>)

\* the query string of the current page names no streamlitUrl parameter
NoStreamlitUrlInQuery ==
  \A i \in 1..Len(locationSearch) : locationSearch[i] # "streamlitUrl"

C6_OriginBasePathMediaPath ==
  ParsedRun
    => LET r == result.val
           o == BaseUrl.origin
           m == WithoutLeadingSlashes(fileUrl.val)
       IN  /\ result.some
           /\ Len(r) >= Len(o) + Len(m) + 1
           /\ SubSeq(r, 1, Len(o)) = o
           /\ SubSeq(r, Len(r) - Len(m) + 1, Len(r)) = m
           /\ IsNormalBasePath(SubSeq(r, Len(o) + 1, Len(r) - Len(m)))

C6_Witness ==
  /\ upc = "resolved"
  /\ parentOverride = Str(<<"http", ":", "/", "/", "localhost", ":", "8501",
                            "/", "/", "app", "/", "page", "/", "/">>)
  /\ fileUrl = Str(<<"/", "/", "media", "/", "sub", "/", "dir", "/", "file.pdf">>)
  /\ result = Str(<<"http", ":", "/", "/", "localhost", ":", "8501", "/", "app", "/",
                    "page", "/", "media", "/", "sub", "/", "dir", "/", "file.pdf">>)

\* C7: resolving the result of a resolution again, in the same page context,
\* returns that result unchanged, for every reference and every base signal.
C7_Idempotent == upc = "done" => again = result

\* C7, for the base signals that parse as a URL.
C7_IdempotentUnderParsedBase ==
  (upc = "done" /\ (Truthy(BaseSignal) => BaseUrl.ok)) => again = result

\* C8: with a non-empty base signal that does not parse, the result is the
\* base without its trailing slashes, one "/", and the media path without
\* its leading slashes.
C8_FallbackJoin ==
  (MediaRun /\ Truthy(BaseSignal) /\ ~BaseUrl.ok)
    => result = Str(WithoutTrailingSlashes(BaseSignal.val) \o <<"/">>
                    \o WithoutLeadingSlashes(fileUrl.val))

C8_Witness ==
  /\ upc = "resolved"
  /\ parentOverride = Undefined
  /\ locationSearch = StreamlitUrlParam \o <<"localhost", "/", "app", "/", "/">>
  /\ fileUrl = Str(<<"/", "/", "media", "/", "file.pdf">>)
  /\ result = Str(<<"localhost", "/", "app", "/", "media", "/", "file.pdf">>)

\* C9: an undefined reference resolves to undefined, for every base signal.
C9_UndefinedGivesUndefined ==
  (upc # "start" /\ ~fileUrl.some) => ~result.some

C9_Witness ==
  /\ upc = "resolved"
  /\ ~fileUrl.some
  /\ Truthy(parentOverride)
  /\ ~result.some

\* C10: in every state of a viewer, loading implies that no page count and
\* no error are recorded, and a recorded error implies not loading.
C10_LoadingExcludesPagesAndError ==
  /\ loading => (numPages = 0 /\ error = NoError)
  /\ error # NoError => ~loading

\* a document was open, the reference changed, and the new load failed
C10_Witness ==
  /\ mounted
  /\ error # NoError
  /\ numPages > 0
  /\ ~loading

\* ------------------------------------------------------------------------
\* Vocabulary of the claims about the viewer

\* a step in which the host gives the mounted viewer another reference
ReferenceChange == mounted /\ mounted' /\ fileUrl' # fileUrl

\* the viewer is ready: a document is open and no error is recorded
Ready == mounted /\ ~loading /\ error = NoError

\* the viewer is failed: an error is recorded
Failed == mounted /\ error # NoError

\* C11: any change of the input reference of a mounted viewer resets it to
\* loading: right after the change loading is true, the page count is 0 and
\* no error is recorded.
C11_ReferenceChangeResets ==
  [][ReferenceChange => (loading' /\ numPages' = 0 /\ error' = NoError)]_vars

\* C11, what the viewer does: a change of the reference leaves loading, the
\* page count and the error as they were.
C11_ReferenceChangeKeepsState ==
  [][ReferenceChange => UNCHANGED <<loading, numPages, error>>]_vars

\* the reference was changed on a ready viewer, which still shows the page
\* count of the document it had open and is not loading
C11_Witness ==
  /\ Ready
  /\ numPages > 0
  /\ docState = "loading"

\* a step in which the reference of the mounted viewer resolves to another
\* document
NewDocumentResolved == mounted /\ mounted' /\ file' # file /\ Truthy(file')

\* C12: when a new document reference is resolved the page-metrics store is
\* reset: no height and no width of a page of the previous document remains.
C12_NewDocumentResetsPageMetrics ==
  [][NewDocumentResolved
       => (pageHeights' = EmptyRecord /\ pageWidths' = EmptyRecord)]_vars

\* C12, what the viewer does: the recorded heights and widths stay as they
\* were when the reference resolves to another document.
C12_NewDocumentKeepsPageMetrics ==
  [][NewDocumentResolved => UNCHANGED <<pageHeights, pageWidths>>]_vars

\* a new document is being opened while heights recorded for the pages of
\* the previous one are still in the store
C12_Witness ==
  /\ mounted
  /\ docState = "loading"
  /\ pageHeights # EmptyRecord
  /\ file = Str(<<"https", ":", "/", "/", "example.com", "/", "file.pdf">>)

\* C13: when the render engine reports a successful open with n pages, the
\* viewer is ready right afterwards: the page count is n, loading is false
\* and no error is recorded.
C13_LoadSuccessMakesReady ==
  [][\A n \in 1..MaxPages :
       (docState # docState' /\ onDocumentLoadSuccess(n))
         => (numPages' = n /\ ~loading' /\ error' = NoError)]_vars

\* a second document was opened by a viewer that was ready with one page:
\* it is ready with the new count of two pages
C13_Witness ==
  /\ Ready
  /\ docState = "loaded"
  /\ numPages = 2
  /\ file = Str(<<"https", ":", "/", "/", "example.com", "/", "file.pdf">>)
  /\ 0 \in DOMAIN pageHeights

\* C14: when the render engine reports a document-level load failure with
\* message m, the viewer is failed right afterwards: the error is the
\* classified pair for m, loading is false, and the document and its pages
\* are no longer rendered.
C14_LoadErrorMakesFailed ==
  [][\A m \in ErrorMessages :
       (docState # docState' /\ onDocumentLoadError(m))
         => /\ error' = classify(m)
            /\ error' # NoError
            /\ ~loading'
            /\ docState' = "none"
            /\ ~(\E i \in 0..(MaxPages - 1), page \in PageSizes :
                   ENABLED onPageLoadSuccess(i, page))']_vars

\* the first open of a document failed with a message that names a missing
\* PDF header
C14_Witness ==
  /\ Failed
  /\ error.main = "Invalid PDF file"
  /\ ~loading
  /\ numPages = 0
  /\ docState = "none"

\* ------------------------------------------------------------------------
\* The viewer with a render engine that can open the documents: an open
\* that is requested again and again eventually succeeds.

SpecLive ==
  Spec /\ SF_vars(\E n \in 1..MaxPages : onDocumentLoadSuccess(n))

\* C15, no automatic retry: while the reference is unchanged a failed viewer
\* stays failed.
C15_NoAutomaticRetry ==
  [][(Failed /\ mounted' /\ fileUrl' = fileUrl) => Failed']_vars

\* C15, recovery: a failure is recovered by supplying a new reference.  If
\* the host keeps supplying references to documents and the render engine
\* can open them, the viewer is ready again and again: it does not stay
\* failed.
C15_NewReferenceRecovers ==
  ([]<><<NewDocumentResolved>>_vars) => ([]<>Ready)

\* C15, what the viewer does: a failed viewer keeps its error through every
\* event, a change of reference included, until it is unmounted.
C15_FailedUntilUnmount ==
  [][(Failed /\ mounted') => (Failed' /\ error' = error)]_vars

\* a failed viewer holds the reference of a document, which is not being
\* opened: no Document is rendered for it
C15_Witness ==
  /\ Failed
  /\ error.main = "Invalid PDF file"
  /\ Truthy(file)
  /\ docState = "none"
  /\ ~(\E n \in 1..MaxPages : ENABLED onDocumentLoadSuccess(n))

\* C16: a page-level failure while the viewer is ready leaves the page
\* count, the error and loading unchanged, and only a whole-document load
\* failure moves the viewer to failed.
C16_PageFailureKeepsViewerReady ==
  [][/\ \A i \in 0..(MaxPages - 1), m \in ErrorMessages :
          pageLoadError(i, m)
            => (UNCHANGED <<numPages, error, loading>> /\ Ready /\ Ready')
     /\ (error = NoError /\ error' # NoError)
          => \E m \in ErrorMessages : onDocumentLoadError(m)]_vars

\* both pages of a two-page document failed and the viewer is ready
C16_Witness ==
  /\ Ready
  /\ numPages = 2
  /\ failedPages = {0, 1}

\* C17: in every reachable state the zoom lies in [MIN_ZOOM, MAX_ZOOM] and
\* is INITIAL_ZOOM plus a whole number of steps, and a zoomIn or a zoomOut
\* moves it by exactly one ZOOM_STEP, clamped to the bounds.
ZoomOnGrid ==
  /\ zoom >= MIN_ZOOM
  /\ zoom <= MAX_ZOOM
  /\ (zoom - MIN_ZOOM) % ZOOM_STEP = (INITIAL_ZOOM - MIN_ZOOM) % ZOOM_STEP

C17_ZoomOnGridInBounds ==
  /\ ZoomOnGrid
  /\ [][/\ ZoomOnGrid'
        /\ zoomIn => zoom' = (IF zoom + ZOOM_STEP > MAX_ZOOM
                                THEN MAX_ZOOM ELSE zoom + ZOOM_STEP)
        /\ zoomOut => zoom' = (IF zoom - ZOOM_STEP < MIN_ZOOM
                                 THEN MIN_ZOOM ELSE zoom - ZOOM_STEP)
        /\ zoom' # zoom => (zoomIn \/ zoomOut \/ ~mounted \/ ~mounted')]_vars

\* eight zoomIn steps from the initial zoom: the zoom is at its upper bound
C17_Witness ==
  /\ Ready
  /\ zoom = MAX_ZOOM
  /\ zoom # INITIAL_ZOOM

\* C18: zoomIn at MAX_ZOOM and zoomOut at MIN_ZOOM return the zoom unchanged;
\* from any zoom, repeated zoomIn reaches MAX_ZOOM and stays there, and
\* repeated zoomOut reaches MIN_ZOOM and stays there.
StepsBetweenBounds == (MAX_ZOOM - MIN_ZOOM) \div ZOOM_STEP

ZoomCallsStabilize ==
  mounted =>
    /\ zoomInValue(MAX_ZOOM) = MAX_ZOOM
    /\ zoomOutValue(MIN_ZOOM) = MIN_ZOOM
    /\ \A n \in 0..MaxRepeats :
         /\ zoomInTimes(zoom, n) \in zoom..MAX_ZOOM
         /\ zoomOutTimes(zoom, n) \in MIN_ZOOM..zoom
         /\ n >= StepsBetweenBounds =>
              /\ zoomInTimes(zoom, n) = MAX_ZOOM
              /\ zoomOutTimes(zoom, n) = MIN_ZOOM

C18_ZoomCallsAtBoundsAreNoOps ==
  /\ []ZoomCallsStabilize
  /\ [][/\ (zoomInCall /\ zoom = MAX_ZOOM) => UNCHANGED vars
        /\ (zoomOutCall /\ zoom = MIN_ZOOM) => UNCHANGED vars
        /\ zoomInCall => (zoom' >= zoom /\ zoom' <= MAX_ZOOM)
        /\ zoomOutCall => (zoom' <= zoom /\ zoom' >= MIN_ZOOM)]_vars

\* the zoom is at its lower bound, where zoomOut is callable and its button
\* is disabled
C18_Witness ==
  /\ Ready
  /\ zoom = MIN_ZOOM
  /\ ENABLED zoomOutCall
  /\ ~ENABLED zoomOut

IndicatorClasses ==
  << {"cors", "cross-origin"},
     {"invalid pdf", "pdf header", "not a pdf"},
     {"network", "fetch", "load"},
     {"not found", "404"},
     {"unauthorized", "401", "403"} >>

CategoryMains ==
  << "Unable to load PDF from external source",
     "Invalid PDF file",
     "Network error loading PDF",
     "PDF not found",
     "Access denied" >>

\* the message holds an indicator of class k, in any letter case
MatchesClass(m, k) ==
  \E i \in 1..Len(m) : LowerCase(m[i]) \in IndicatorClasses[k]

MatchedClasses(m) == {k \in 1..Len(IndicatorClasses) : MatchesClass(m, k)}

EarliestClass(m) ==
  CHOOSE k \in MatchedClasses(m) : \A j \in MatchedClasses(m) : k <= j

C20_ClassifierTakesEarliestClass ==
  Failed =>
    IF MatchedClasses(loadErrorMessage) = {}
      THEN /\ error.main = "Unable to load PDF"
           /\ error.help = <<"Error details: ">> \o loadErrorMessage
      ELSE error.main = CategoryMains[EarliestClass(loadErrorMessage)]

\* a message of the not-found class and, after it and in capitals, of the
\* network class: the category is the network one
C20_Witness ==
  /\ Failed
  /\ loadErrorMessage = <<"404", "Load">>
  /\ MatchedClasses(loadErrorMessage) = {3, 4}
  /\ error.main = "Network error loading PDF"

\* C21: a failure message that matches no indicator class is classified
\* without failure as the generic category, and the remedy text holds the
\* message as it was raised, in its own letter case.
UnmatchedMessages == {m \in ClassifierMessages : MatchedClasses(m) = {}}

C21_GenericKeepsRawMessage ==
  /\ docState = "loading" =>
       \A m \in UnmatchedMessages : ENABLED onDocumentLoadError(m)
  /\ (Failed /\ loadErrorMessage \in UnmatchedMessages) =>
       /\ error.main = "Unable to load PDF"
       /\ error.help = <<"Error details: ">> \o loadErrorMessage
       /\ ToLowerCase(loadErrorMessage) # loadErrorMessage
            => error.help # <<"Error details: ">> \o ToLowerCase(loadErrorMessage)

\* a message with a capital letter and no indicator, in the remedy text as raised
C21_Witness ==
  /\ Failed
  /\ loadErrorMessage = <<"Oops ", "again">>
  /\ ToLowerCase(loadErrorMessage) # loadErrorMessage
  /\ error.help = <<"Error details: ", "Oops ", "again">>

\* C22: the height estimate of a recorded index is its recorded height; of
\* an index without record it is the default when nothing is recorded and
\* otherwise the mean of the recorded heights rounded to the nearest whole
\* number, halves up.
RecordedCount == Cardinality(DOMAIN pageHeights)

PageIndexes == 0..(numPages - 1)

OtherEntriesKept(before, after, i) ==
  /\ DOMAIN after = DOMAIN before \cup {i}
  /\ \A j \in DOMAIN before \ {i} : after[j] = before[j]

StoreHoldsLastDelivered ==
  /\ DOMAIN pageHeights = DOMAIN deliveredPages
  /\ DOMAIN pageWidths = DOMAIN deliveredPages
  /\ \A i \in DOMAIN deliveredPages :
       /\ pageHeights[i] = deliveredPages[i].height
       /\ pageWidths[i] = deliveredPages[i].width

C23_RecordIsLastWriteWins ==
  /\ StoreHoldsLastDelivered
  /\ [][/\ StoreHoldsLastDelivered'
        /\ \A i \in 0..(MaxMetricPages - 1), page \in MetricPageSizes :
             onPageLoadSuccess(i, page)
               => /\ pageHeights'[i] = page.height
                  /\ pageWidths'[i] = page.width
                  /\ OtherEntriesKept(pageHeights, pageHeights', i)
                  /\ OtherEntriesKept(pageWidths, pageWidths', i)
        /\ (mounted /\ mounted' /\ <<pageHeights, pageWidths>>' # <<pageHeights, pageWidths>>)
             => \E i \in 0..(MaxMetricPages - 1), page \in MetricPageSizes :
                  onPageLoadSuccess(i, page)]_vars

\* every page of a three-page document is recorded, the second as a
\* landscape page, and a further callback for it is deliverable
C23_Witness ==
  /\ Ready
  /\ numPages = 3
  /\ DOMAIN pageHeights = {0, 1, 2}
  /\ pageHeights[1] = 595 /\ pageWidths[1] = 842
  /\ pageHeights[0] = 842 /\ pageHeights[2] = 842
  /\ ENABLED onPageLoadSuccess(1, [height |-> 842, width |-> 595])

\* C24: for every scroll offset, viewport height, zoom and overscan the
\* virtual window holds indexes of [0, numPages - 1] only and the pages
\* rendered have numbers in [1, numPages]; with numPages = 0 the window is
\* empty, the total size is 0 and no page is rendered.
C24_WindowWithinPageCount ==
  \A scrollOffset \in ScrollOffsets, viewportHeight \in ViewportHeights,
     overscanCount \in {0, overscan}, measured \in {{}, PageIndexes} :
    /\ getVirtualItems(scrollOffset, viewportHeight, overscanCount, measured)
         \subseteq PageIndexes
    /\ renderedPageNumbers(scrollOffset, viewportHeight, measured) \subseteq 1..numPages
    /\ numPages = 0 =>
         /\ getVirtualItems(scrollOffset, viewportHeight, overscanCount, measured) = {}
         /\ getTotalSize(measured) = 0
         /\ renderedPageNumbers(scrollOffset, viewportHeight, measured) = {}

\* three pages without record at the initial zoom, scrolled into the second:
\* without overscan the window is the second page, with the overscan of the
\* viewer all three pages are rendered
C24_Witness ==
  /\ Ready
  /\ numPages = 3
  /\ zoom = INITIAL_ZOOM
  /\ pageHeights = EmptyRecord
  /\ getVirtualItems(90000, 60000, 0, {}) = {1}
  /\ renderedPageNumbers(90000, 60000, {}) = {1, 2, 3}

\* C25: the total size is the sum over all numPages pages, rendered or
\* not, of height * zoom + PAGE_MARGIN, the height being the recorded one
\* for a recorded page and the average-based estimate for the others,
\* whichever slots have been measured.
RecordedIndexes == DOMAIN pageHeights \cap PageIndexes

NextControls ==
  \/ \E f \in ViewerFileUrls : Mount(f)
  \/ \E f \in ViewerFileUrls : SetFile(f)
  \/ Unmount
  \/ \E n \in 1..MaxPages : onDocumentLoadSuccess(n)
  \/ \E m \in ErrorMessages : onDocumentLoadError(m)
  \/ zoomIn
  \/ zoomOut
  \/ \E w \in ContentWidths : updateContainerWidth(w)
  \/ handleScroll
  \/ onMouseEnter
  \/ onMouseLeave
  \/ handleMouseMove
  \/ placeholderPointerCrossing
  \/ inactivityTimeout

SpecControls == Init /\ [][NextControls]_vars /\ WF_vars(inactivityTimeout)

\* ------------------------------------------------------------------------
\* Two parent elements on one page, each with its viewer: the events of the
\* first viewer interleaved with those of the second.

OneIndex == {0}

NextInstances ==
  \/ \E f \in ViewerFileUrls : Mount(f)
  \/ Unmount
  \/ \E n \in 1..MaxPages : onDocumentLoadSuccess(n)
  \/ \E i \in OneIndex, page \in PageSizes : onPageLoadSuccess(i, page)
  \/ zoomIn
  \/ handleScroll
  \/ onMouseEnter
  \/ onMouseLeave
  \/ inactivityTimeout
  \/ \E f \in ViewerFileUrls : other_ComponentEntry(f)
  \/ other_cleanup
  \/ \E n \in 1..MaxPages : other_onDocumentLoadSuccess(n)
  \/ \E m \in ErrorMessages : other_onDocumentLoadError(m)
  \/ \E i \in OneIndex, page \in PageSizes : other_onPageLoadSuccess(i, page)
  \/ other_zoomIn
  \/ other_onMouseEnter
  \/ other_handleScroll
  \/ other_inactivityTimeout

SpecInstances == Init /\ [][NextInstances]_vars

\* ------------------------------------------------------------------------
\* The render engine's events with the late ones: a page callback of the
\* previous document arriving while the new reference is being opened.

NextStale ==
  \/ \E f \in ViewerFileUrls : Mount(f)
  \/ \E f \in ViewerFileUrls : SetFile(f)
  \/ Unmount
  \/ \E n \in 1..MaxPages : onDocumentLoadSuccess(n)
  \/ \E m \in ErrorMessages : onDocumentLoadError(m)
  \/ \E i \in 0..(MaxPages - 1), page \in PageSizes : onPageLoadSuccess(i, page)
  \/ \E i \in 0..(MaxPages - 1), page \in PageSizes : stalePageLoadSuccess(i, page)

SpecStale == Init /\ [][NextStale]_vars

\* ------------------------------------------------------------------------
\* The zoom controls: shown by the pointer, hidden by a scroll, by the
\* pointer leaving and by the inactivity timeout.

\* C26: a run of the scroll listener leaves the zoom controls hidden and no
\* inactivity timeout pending, whatever the controls and the timeout were
\* before it.
C26_ScrollHidesAndCancels ==
  [][handleScroll => (~showZoomControls' /\ ~timerPending' /\ ~timeoutRef')]_vars

\* the pointer is still inside, the controls are hidden and the timeout is
\* forgotten (one that fired would have left its id in the ref)
C26_Witness ==
  /\ ContainerRendered
  /\ scrollAttached
  /\ pointerInside
  /\ isHovering
  /\ ~showZoomControls
  /\ ~timerPending
  /\ ~timeoutRef

\* C26 as stated for any state of the displayed viewer: whenever the content
\* area is displayed and the controls are shown or a timeout is pending, a
\* scroll of the content area runs the listener.
C26_AnyScrollIsHandled ==
  (ContainerRendered /\ (showZoomControls \/ timerPending)) => ENABLED handleScroll

\* C27: a mounted viewer starts with the controls hidden; onMouseEnter
\* leaves them shown with the inactivity timeout pending; shown controls
\* always have a timeout pending; and in a run where the pointer and scroll
\* events stop, the controls end up hidden for good.
PointerOrScrollEvent ==
  \/ handleScroll
  \/ onMouseEnter
  \/ onMouseLeave
  \/ handleMouseMove
  \/ placeholderPointerCrossing

C27_ShownControlsEndHidden ==
  /\ ~showZoomControls
  /\ [][(~mounted /\ mounted') => ~showZoomControls']_vars
  /\ [][onMouseEnter => (showZoomControls' /\ timerPending')]_vars
  /\ [][showZoomControls' => timerPending']_vars
  /\ <>[][~PointerOrScrollEvent]_vars => <>[](~showZoomControls)

\* the timeout fired with the pointer resting inside: the controls are
\* hidden and the ref still holds the fired timeout's id
C27_Witness ==
  /\ ContainerRendered
  /\ pointerInside
  /\ isHovering
  /\ ~showZoomControls
  /\ ~timerPending
  /\ timeoutRef

\* C28: onMouseLeave leaves the controls hidden and no inactivity timeout
\* pending, and while the controls are hidden no timeout is pending, so no
\* timeout fires before the controls are shown again.
C28_LeaveHidesAndCancels ==
  /\ [][onMouseLeave => (~showZoomControls' /\ ~timerPending' /\ ~timeoutRef')]_vars
  /\ [][~showZoomControls' => ~timerPending']_vars
  /\ [][(~showZoomControls /\ ~showZoomControls') => ~inactivityTimeout]_vars

\* the pointer is inside with the controls shown and the timeout pending,
\* and leaves: the step hides the controls and nothing is left to fire
C28_Witness ==
  /\ ContainerRendered
  /\ pointerInside
  /\ showZoomControls
  /\ timerPending
  /\ ENABLED (onMouseLeave /\ ~showZoomControls' /\ ~timerPending')

\* C29: the unmount of the viewer leaves no inactivity timeout pending, no
\* resize observer, no scroll listener and no mousemove listener, and while
\* no viewer is mounted none of their callbacks runs.
Detached ==
  /\ ~timerPending
  /\ ~resizeObserved
  /\ ~scrollAttached
  /\ ~moveAttached

ViewerCallback ==
  \/ inactivityTimeout
  \/ handleScroll
  \/ handleMouseMove
  \/ \E w \in ContentWidths : updateContainerWidth(w)

C29_UnmountCancelsAndDetaches ==
  /\ (~mounted => Detached)
  /\ [][~mounted' => Detached']_vars
  /\ [][~mounted => ~ViewerCallback]_vars

\* a viewer with the controls shown, the timeout pending and the observer
\* and both listeners attached, and its unmount
C29_Witness ==
  /\ mounted
  /\ showZoomControls
  /\ timerPending
  /\ resizeObserved
  /\ scrollAttached
  /\ moveAttached
  /\ ENABLED (Unmount /\ ~mounted' /\ Detached')

\* C30: the resize callback and the scroll listener leave a state that a
\* second run of the same callback with the same width does not change; a
\* zoom step leaves such a state exactly when it ends on the bound.
C30_ResizeAndScrollIdempotent ==
  /\ [][\A w \in ContentWidths :
          updateContainerWidth(w) =>
            (ContainerRendered' /\ resizeObserved' /\ containerWidth' = w)]_vars
  /\ [][handleScroll =>
          (~showZoomControls' /\ ~timerPending' /\ ~timeoutRef' /\ ~moveAttached')]_vars
  /\ [][zoomIn => (zoomInValue(zoom') = zoom' <=> zoom' = MAX_ZOOM)]_vars
  /\ [][zoomOut => (zoomOutValue(zoom') = zoom' <=> zoom' = MIN_ZOOM)]_vars

\* two zoom steps above the initial zoom, a width delivered and the
\* controls hidden by a scroll with the pointer inside
C30_Witness ==
  /\ ZoomControlsRendered
  /\ zoom = INITIAL_ZOOM + 2 * ZOOM_STEP
  /\ containerWidth # 0
  /\ resizeObserved
  /\ scrollAttached
  /\ pointerInside
  /\ ~showZoomControls
  /\ ~timeoutRef

\* C30 as stated for the zoom handlers too: after a zoom step, a second
\* click on the same button, where it is still enabled, changes nothing.
C30_HandlersIdempotent ==
  /\ [][zoomIn => ~(canZoomIn' /\ zoomInValue(zoom') # zoom')]_vars
  /\ [][zoomOut => ~(canZoomOut' /\ zoomOutValue(zoom') # zoom')]_vars

\* C31: an event of the viewer of one parent element leaves the state of
\* the viewer of the other parent element unchanged, in both directions:
\* mounted, zoom, page metrics, error, loading, page count, controls and
\* pending timeout.
firstViewerState ==
  <<mounted, numPages, loading, error, zoom, showZoomControls, timerPending,
    pageHeights, pageWidths>>

FirstViewerEvent ==
  \/ \E f \in ViewerFileUrls : Mount(f)
  \/ Unmount
  \/ \E n \in 1..MaxPages : onDocumentLoadSuccess(n)
  \/ \E i \in OneIndex, page \in PageSizes : onPageLoadSuccess(i, page)
  \/ zoomIn
  \/ handleScroll
  \/ onMouseEnter
  \/ onMouseLeave
  \/ inactivityTimeout

OtherViewerEvent ==
  \/ \E f \in ViewerFileUrls : other_ComponentEntry(f)
  \/ other_cleanup
  \/ \E n \in 1..MaxPages : other_onDocumentLoadSuccess(n)
  \/ \E m \in ErrorMessages : other_onDocumentLoadError(m)
  \/ \E i \in OneIndex, page \in PageSizes : other_onPageLoadSuccess(i, page)
  \/ other_zoomIn
  \/ other_onMouseEnter
  \/ other_handleScroll
  \/ other_inactivityTimeout

C31_InstancesShareNothing ==
  /\ [][(otherViewer' # otherViewer) => firstViewerState' = firstViewerState]_vars
  /\ [][(firstViewerState' # firstViewerState) => otherViewer' = otherViewer]_vars
  /\ [][OtherViewerEvent => firstViewerState' = firstViewerState]_vars
  /\ [][FirstViewerEvent => otherViewer' = otherViewer]_vars

\* both viewers are mounted and differ in zoom, controls and timeout
C31_Witness ==
  /\ mounted
  /\ otherViewer.mounted
  /\ zoom = INITIAL_ZOOM
  /\ otherViewer.zoom = INITIAL_ZOOM + 2 * ZOOM_STEP
  /\ showZoomControls
  /\ timerPending
  /\ ~otherViewer.showZoomControls
  /\ ~otherViewer.timerPending
  /\ numPages = 1
  /\ otherViewer.numPages = 2
  /\ DOMAIN pageHeights = {}
  /\ DOMAIN otherViewer.pageHeights = {0}

\* C32: while the resolved file is undefined the viewer shows the no-file
\* placeholder and no Document is rendered, so nothing is opened; and no
\* step between two such states changes numPages, loading or error.
NoFilePlaceholder == mounted /\ ~Truthy(file)

EmptyOpensNothing == NoFilePlaceholder => (docState = "none" /\ ~ContainerRendered)

C32_EmptyOpensNothing ==
  /\ EmptyOpensNothing
  /\ [][EmptyOpensNothing']_vars
  /\ [][(NoFilePlaceholder /\ NoFilePlaceholder') =>
          UNCHANGED <<numPages, loading, error, docState>>]_vars
  /\ [][NoFilePlaceholder =>
          ~(\/ \E n \in 1..MaxPages : onDocumentLoadSuccess(n)
            \/ \E m \in ErrorMessages : onDocumentLoadError(m))]_vars

\* a viewer given no reference from its mount on, with the pointer over the
\* placeholder: nothing loading in the Document, the initial values kept
C32_Witness ==
  /\ NoFilePlaceholder
  /\ pointerInside
  /\ docState = "none"
  /\ numPages = 0
  /\ loading
  /\ error = NoError

\* C32 as stated for every state with no reference: numPages and error have
\* their initial values.
C32_EmptyHasInitialValues ==
  NoFilePlaceholder => (docState = "none" /\ numPages = 0 /\ error = NoError)

\* C33: every zoomIn and zoomOut step ends with virtualizer.measure()
\* having run on the render of the zoom the step committed, and in every
\* state the last recompute was made at the current zoom.
C33_ZoomThenMeasure ==
  /\ measuredZoom = zoom
  /\ [][measuredZoom' = zoom']_vars
  /\ [][(zoomIn \/ zoomOut) => (zoom' # zoom /\ measuredZoom' = zoom')]_vars

\* the zoom is one step above the initial one and the recompute was made at
\* it; a zoomOut from here recomputes at the initial zoom
C33_Witness ==
  /\ Ready
  /\ zoom = INITIAL_ZOOM + ZOOM_STEP
  /\ measuredZoom = INITIAL_ZOOM + ZOOM_STEP
  /\ ENABLED (zoomOut /\ measuredZoom' = INITIAL_ZOOM)

\* C34: a load-success callback of page index i records the page's height
\* and width under i and then calls virtualizer.measureElement with the
\* scroll element, whichever page loaded.
C34_RecordsThenMeasuresScrollElement ==
  [][\A i \in 0..(MaxMetricPages - 1), page \in MetricPageSizes :
       onPageLoadSuccess(i, page) =>
         /\ pageHeights'[i] = page.height
         /\ pageWidths'[i] = page.width
         /\ measureTarget' = ScrollElement
         /\ measureTarget' # PageElement(i)]_vars

\* page 1 of a document loaded and was recorded; the call named the scroll
\* element
C34_Witness ==
  /\ Ready
  /\ DOMAIN pageHeights = {1}
  /\ pageHeights[1] = 842
  /\ pageWidths[1] = 595
  /\ measureTarget = ScrollElement

\* C34 as stated: the callback of page index i records it and names the
\* element of slot i in the call.
C34_RecordsThenMeasuresSlot ==
  [][\A i \in 0..(MaxMetricPages - 1), page \in MetricPageSizes :
       onPageLoadSuccess(i, page) =>
         /\ pageHeights'[i] = page.height
         /\ pageWidths'[i] = page.width
         /\ measureTarget' = PageElement(i)]_vars

\* C35: a page callback of the previous document that arrives after the
\* reference changed leaves numPages, loading and error as they are and
\* records its sizes under its index in the one store of page metrics.
C35_StalePageCallbackIsRecorded ==
  [][\A i \in 0..(MaxPages - 1), page \in PageSizes :
       stalePageLoadSuccess(i, page) =>
         /\ UNCHANGED <<numPages, loading, error, file, docState>>
         /\ pageHeights'[i] = page.height
         /\ pageWidths'[i] = page.width]_vars

\* the new reference is being opened, nothing is recorded yet, and a late
\* callback of page 0 of the previous document records its height
C35_Witness ==
  /\ ContainerRendered
  /\ docState = "loading"
  /\ numPages > 0
  /\ DOMAIN pageHeights = {}
  /\ ENABLED (/\ stalePageLoadSuccess(0, [height |-> 842, width |-> 612])
              /\ DOMAIN pageHeights' = {0})

\* C35 as stated: the late callback changes neither numPages, loading, error
\* nor the page metrics.
C35_StaleCallbackIsIgnored ==
  [][\A i \in 0..(MaxPages - 1), page \in PageSizes :
       stalePageLoadSuccess(i, page) =>
         UNCHANGED <<numPages, loading, error, pageHeights, pageWidths>>]_vars

\* C36: a mousemove with the controls shown clears the scheduled timeout
\* and schedules a new one, so at most one timeout is ever scheduled, the one
\* the ref names, and it is the one the last mousemove or enter scheduled.
C36_MoveRestartsTheOneTimer ==
  /\ pendingTimeouts = 0
  /\ [][pendingTimeouts' <= 1]_vars
  /\ [][timerPending' <=> (pendingTimeouts' = 1 /\ timeoutRef')]_vars
  /\ [][handleMouseMove =>
          (showZoomControls /\ showZoomControls' /\ pendingTimeouts' = 1 /\ timeoutRef')]_vars
  /\ [][inactivityTimeout => (pendingTimeouts = 1 /\ pendingTimeouts' = 0)]_vars

\* the controls are shown with one timeout scheduled and the listener on
\* the root element: a mousemove leaves one timeout scheduled
C36_Witness ==
  /\ ContainerRendered
  /\ pointerInside
  /\ showZoomControls
  /\ moveAttached
  /\ pendingTimeouts = 1
  /\ ENABLED (handleMouseMove /\ pendingTimeouts' = 1)

\* C37: between two states of a mounted viewer the zoom changes only by a
\* click on a zoom button, and the buttons are there only with a file,
\* loading false and no error: no zoom step starts in a state with loading
\* true or with an error.
C37_ZoomChangesOnlyWhenReady ==
  /\ [][(mounted /\ mounted' /\ zoom' # zoom) =>
          (Truthy(file) /\ ~loading /\ error = NoError /\ (zoomIn \/ zoomOut))]_vars
  /\ [][(zoomIn \/ zoomOut) => (Ready /\ Ready' /\ ZoomControlsRendered)]_vars
  /\ [][(mounted /\ (loading \/ error # NoError)) => (mounted' => zoom' = zoom)]_vars

\* a ready viewer one step below the initial zoom
C37_Witness ==
  /\ Ready
  /\ ZoomControlsRendered
  /\ zoom = INITIAL_ZOOM - ZOOM_STEP
  /\ measuredZoom = zoom

\* C38: the scroll listener and the ResizeObserver are attached by the
\* mount of a viewer with a file, stay while the content element stays, and
\* are never attached by a later step of the same instance.
C38_ListenersAttachedOnlyAtMount ==
  /\ ContainerRendered => (scrollAttached /\ resizeObserved)
  /\ [][(~mounted /\ ContainerRendered') => (scrollAttached' /\ resizeObserved')]_vars
  /\ [][(ContainerRendered /\ ContainerRendered') =>
          (scrollAttached' = scrollAttached /\ resizeObserved' = resizeObserved)]_vars
  /\ [][(mounted /\ mounted' /\ ~scrollAttached) => ~scrollAttached']_vars
  /\ [][(mounted /\ mounted' /\ ~resizeObserved) => ~resizeObserved']_vars

\* a viewer mounted with no file and given one later shows its document with
\* the controls up, no scroll listener, no observer and a width of 0
C38_Witness ==
  /\ Ready
  /\ docState = "loaded"
  /\ showZoomControls
  /\ ~scrollAttached
  /\ ~resizeObserved
  /\ containerWidth = 0

\* C38 as stated: whenever the content area is displayed the scroll listener
\* and the ResizeObserver are attached to it.
C38_ListenersAttachedWhenDisplayed ==
  ContainerRendered => (scrollAttached /\ resizeObserved)

\* C39: the controls go from hidden to shown only by onMouseEnter, which
\* takes a pointer that was outside; with the controls hidden and the
\* pointer inside no mousemove listener is left, and no step shows them.
C39_OnlyEnterShowsControls ==
  /\ [][(~showZoomControls /\ showZoomControls') => (onMouseEnter /\ ~pointerInside)]_vars
  /\ [][handleMouseMove => (showZoomControls /\ showZoomControls')]_vars
  /\ [][(~showZoomControls /\ pointerInside) => ~showZoomControls']_vars
  /\ [][~showZoomControls' => ~moveAttached']_vars

\* the timeout hid the controls under a resting pointer: no listener is
\* left for a mousemove to run
C39_Witness ==
  /\ ContainerRendered
  /\ pointerInside
  /\ ~showZoomControls
  /\ timeoutRef
  /\ pendingTimeouts = 0
  /\ ~moveAttached
  /\ ~ENABLED handleMouseMove
  /\ ~ENABLED onMouseEnter

\* C40: in every reachable state with the zoom controls hidden no
\* inactivity timeout is scheduled.
C40_HiddenControlsHaveNoTimer ==
  ~showZoomControls => (~timerPending /\ pendingTimeouts = 0)

\* a ready, zoomed viewer with a recorded page whose controls were shown
\* and are hidden again under the pointer: nothing is scheduled
C40_Witness ==
  /\ Ready
  /\ zoom = INITIAL_ZOOM + ZOOM_STEP
  /\ DOMAIN pageHeights = {0}
  /\ pointerInside
  /\ timeoutRef
  /\ ~showZoomControls
  /\ ~timerPending
  /\ pendingTimeouts = 0

====
